---- MODULE Spec2Model ----
(***************************************************************************)
(* A model of slontia::shared_mutex / slontia::shared_timed_mutex          *)
(* (include/shared_mutex.h), of the parking cell they are built on         *)
(* (include/timed_atomic_uint32/...), and of the clients the tests and the *)
(* benchmark run against them.  Every atomic operation on writing_num_ or  *)
(* holding_num_ is one step of the thread that performs it; a call is      *)
(* merged with its first atomic operation.  Memory is sequentially         *)
(* consistent.                                                             *)
(***************************************************************************)
EXTENDS Integers, FiniteSets, Sequences, TLC

\* Number of threads that use the mutex.
NumThreads == 2

\* Shared holds that may be outstanding when one more shared acquire is called.
MaxShared == 2

\* Write operations after which the benchmark starts no further one.
MaxWrites == 2

\* Exclusive acquisitions that are started where the claim wants finitely many.
MaxExclusive == 2

Threads == 1..NumThreads

\* Handles that are local variables of a thread (ptr and ptr_2 of the tests).
NumPtrs == 2

\* The handles: handle t of a thread t is the locked_ptr_template that the
\* lock_wrapper call of t returns, the others are the local variables.
Handles == 1..(NumThreads + NumPtrs)

Ptrs == Handles \ Threads

(***************************************************************************)
(* std::uint32_t.  A value v is the record [hi, lo] with v = hi*2^31 + lo, *)
(* hi the top bit (the k_writing_state bit) and lo the low 31 bits, so     *)
(* that arithmetic modulo 2^32 is exact.                                   *)
(***************************************************************************)
\* k_writing_state - 1: the largest value of the low 31 bits.
MaxLo == 2147483647

U32(n) == [hi |-> 0, lo |-> n]

Zero == U32(0)

One == U32(1)

\* static constexpr std::uint32_t k_writing_state = (1 << 31);
k_writing_state == [hi |-> 1, lo |-> 0]

\* An increment that adds 2.
fetch_add_2(v) ==
    IF v.lo >= MaxLo - 1 THEN [hi |-> 1 - v.hi, lo |-> v.lo - (MaxLo - 1)]
    ELSE [v EXCEPT !.lo = @ + 2]

\* An increment that is lost.
no_add_1(v) == v

\* v + 1 modulo 2^32
fetch_add_1(v) ==
    IF v.lo = MaxLo THEN [hi |-> 1 - v.hi, lo |-> 0] ELSE [v EXCEPT !.lo = @ + 1]

\* v - 1 modulo 2^32
\* A decrement that leaves the cell as it is.
no_sub_1(v) == v

fetch_sub_1(v) ==
    IF v.lo = 0 THEN [hi |-> 1 - v.hi, lo |-> MaxLo] ELSE [v EXCEPT !.lo = @ - 1]

\* A release that stores 0 in the cell instead of subtracting.
store_zero(v) == [hi |-> 0, lo |-> 0]

\* A release that leaves the writing-state bit set.
no_sub_writing(v) == v

\* v - k_writing_state modulo 2^32: the top bit flips.

fetch_sub_writing(v) == [v EXCEPT !.hi = 1 - @]

ExclusiveOps == {"lock", "try_lock", "try_lock_for", "try_lock_until"}

SharedOps == {"lock_shared", "try_lock_shared", "try_lock_shared_for", "try_lock_shared_until"}

\* The calls that take a duration: each wait of theirs is given the whole duration.
ForOps == {"try_lock_for", "try_lock_shared_for"}

\* The calls that take a time point: each wait of theirs is given what is left.
UntilOps == {"try_lock_until", "try_lock_shared_until"}

TimedOps == ForOps \cup UntilOps

ReleaseOps == {"unlock", "unlock_shared"}

Platforms == {"linux", "windows"}

VARIABLES
    writing_num_,   \* AtomicUInt32 writing_num_
    holding_num_,   \* AtomicUInt32 holding_num_
    platform,       \* which timed_atomic_uint32_t the build uses
    pc,             \* pc[t]: where thread t is in its current call
    op,             \* op[t]: the call thread t is in, or made last
    cur,            \* cur[t]: the local current_value / writing_num / holding_num
    res,            \* res[t]: what the last completed call of t returned
    expired,        \* expired[t]: the deadline of t's timed call has been reached
    past,           \* past[t]: the timeout of t's timed call had elapsed when it was called
    wrote_h,        \* wrote_h[t]: the shared acquire t is in, or made last, has written holding_num_
    xheld,          \* xheld[t]: exclusive holds acquired by t, not yet unlocked
    sheld,          \* sheld[t]: shared holds acquired by t, not yet unlocked
    owner,          \* owner[t]: the thread whose hold t's unlock(_shared) releases, else 0
    a_,             \* object::a_ of the benchmark
    b_,             \* object::b_ of the benchmark
    tmp,            \* tmp[t]: the value thread t has read from a_ or b_
    task,           \* task[t]: where thread t is in operate_object
    wcount,         \* write operations whose acquisition succeeded
    k_type,         \* k_type[h]: the lock_type of handle h (for a thread: of its call), "none": no object
    lock_wrapper_,  \* lock_wrapper_[h]: the pointer in handle h, "none" until it is constructed
    mutex_2,        \* the two counters of the mutex_ of a second wrapper, obj_2
    copying,        \* copying[t]: the handle whose copy constructor thread t is in, else 0
    xcalls          \* exclusive acquisitions started

lockvars ==
    <<writing_num_, holding_num_, platform, pc, op, cur, res, expired, past, wrote_h,
      xheld, sheld, owner>>

datavars == <<a_, b_, tmp, task, wcount, k_type, lock_wrapper_, mutex_2, copying>>

vars == <<lockvars, datavars, xcalls>>

RECURSIVE Sum(_, _)
\* The sum of f over the set S of threads.
Sum(f, S) == IF S = {} THEN 0 ELSE LET t == CHOOSE x \in S : TRUE IN f[t] + Sum(f, S \ {t})

\* Exclusive holds granted and not yet released by unlock's fetch_sub.
ExclusiveHolds == Sum(xheld, Threads)

\* Shared holds granted and not yet released by unlock_shared's fetch_sub.
SharedHolds == Sum(sheld, Threads)

Init ==
    /\ writing_num_ = Zero
    /\ holding_num_ = Zero
    /\ platform \in Platforms
    /\ pc = [t \in Threads |-> "idle"]
    /\ op = [t \in Threads |-> "none"]
    /\ cur = [t \in Threads |-> Zero]
    /\ res = [t \in Threads |-> "none"]
    /\ expired = [t \in Threads |-> FALSE]
    /\ past = [t \in Threads |-> FALSE]
    /\ wrote_h = [t \in Threads |-> FALSE]
    /\ xheld = [t \in Threads |-> 0]
    /\ sheld = [t \in Threads |-> 0]
    /\ owner = [t \in Threads |-> 0]
    /\ a_ = 0
    /\ b_ = 0
    /\ tmp = [t \in Threads |-> 0]
    /\ task = [t \in Threads |-> "none"]
    /\ wcount = 0
    /\ k_type = [h \in Handles |-> "none"]
    /\ lock_wrapper_ = [h \in Handles |-> "none"]
    /\ mutex_2 = [writing_num_ |-> Zero, holding_num_ |-> Zero]
    /\ copying = [t \in Threads |-> 0]
    /\ xcalls = 0


(***************************************************************************)
(* The parking cell: wait, wait_until / wait_for, notify_one, notify_all.  *)
(***************************************************************************)
\* The cell a call parks on: writers on holding_num_, readers on writing_num_.
AtomValue(t) == IF op[t] \in ExclusiveOps THEN holding_num_ ELSE writing_num_

\* Where a waiter continues when its wait returns (true): the loops of
\* atomic_wait_until_zero / atomic_wait_until_zero_with_timeout_ call fn() again.
RetryPc(t) == IF op[t] \in ExclusiveOps THEN "cas" ELSE "load1"

\* Threads parked on holding_num_ (h = TRUE) or on writing_num_ (h = FALSE).
ParkedOn(h) ==
    {u \in Threads : pc[u] \in {"parked", "tparked"} /\ (op[u] \in ExclusiveOps) = h}

\* pc after the threads of S have been woken.
Woken(S) == [u \in Threads |-> IF u \in S THEN RetryPc(u) ELSE pc[u]]

\* A notify_one that wakes nobody.
notify_nobody(h) == {{}}

\* notify_one on holding_num_ (h = TRUE) or writing_num_: the sets of threads one
\* call may wake (one parked thread, or nobody when nobody is parked).
notify_one(h) == IF ParkedOn(h) = {} THEN {{}} ELSE {{u} : u \in ParkedOn(h)}

\* notify_all: every parked thread is woken.
notify_all(h) == {ParkedOn(h)}

\* Linux wait_until: syscall(SYS_futex, ..., value, timeout, ...) == 0.  FUTEX_WAIT
\* fails with EAGAIN when the cell no longer holds `expected`, and fails as well
\* on EINTR, ETIMEDOUT and EFAULT: all of them make wait_until return false.
wait_until_linux(value, expected, exp) ==
    IF value # expected THEN {"false"} ELSE {"park", "false"}

\* Windows wait_until -> wait_for(value, timeout_time - Clock::now()): a duration
\* <= 0 returns *this == value; otherwise WaitOnAddress, which returns TRUE at
\* once when the cell differs from `expected`.
wait_until_windows(value, expected, exp) ==
    IF exp THEN (IF value = expected THEN {"true"} ELSE {"false"})
    ELSE IF value # expected THEN {"true"} ELSE {"park"}

wait_until(value, expected, exp) ==
    IF platform = "linux" THEN wait_until_linux(value, expected, exp)
    ELSE wait_until_windows(value, expected, exp)

\* Every call waits on the cell when fn() returned a value > 0.
fail_to_wait(o) == "wait"

\* Where a call goes when fn() returned a value > 0.
FailPc(o) ==
    CASE o \in {"lock", "lock_shared"} -> "wait"
      [] o \in TimedOps -> "twait"
      [] o = "try_lock" -> "dec_w"
      [] OTHER -> "idle"

\* A timed call that returns as soon as its wait returned false.
timeout_returns(o) == "idle"

\* Where a timed call goes when its wait returned false.
TimeoutPc(o) == IF o \in ExclusiveOps THEN "dec_w" ELSE "idle"

\* Thread t continues at p with local value c after waking the threads of S; when
\* p is "idle" its call returns r and its locals go out of scope.  "load2" is
\* where a call is once its fetch_add has written holding_num_.
Goto(t, p, r, c, S) ==
    /\ pc' = [Woken(S) EXCEPT ![t] = p]
    /\ res' = [res EXCEPT ![t] = IF p = "idle" THEN r ELSE @]
    /\ cur' = [cur EXCEPT ![t] = IF p = "idle" THEN Zero ELSE c]
    /\ expired' = [expired EXCEPT ![t] = IF p = "idle" THEN FALSE ELSE @]
    /\ past' = [past EXCEPT ![t] = IF p = "idle" THEN FALSE ELSE @]
    /\ wrote_h' = [wrote_h EXCEPT ![t] = IF p = "load2" THEN TRUE ELSE @]

\* The timeout a wait of t's timed call is given is <= 0: the duration the call
\* was given, or timeout_time - Clock::now().
TimeoutElapsed(t) == IF op[t] \in ForOps THEN past[t] ELSE expired[t]

\* atom.wait(current_value): parks iff the cell still holds current_value.
wait(t) ==
    /\ pc[t] = "wait"
    /\ Goto(t, IF AtomValue(t) = cur[t] THEN "parked" ELSE RetryPc(t), "none", cur[t], {})
    /\ UNCHANGED <<writing_num_, holding_num_, platform, op, xheld, sheld, owner, datavars, xcalls>>

\* atomic_wait_timeout_(atom, current_value, timeout)
atomic_wait_timeout_(t) ==
    /\ pc[t] = "twait"
    /\ \E r \in wait_until(AtomValue(t), cur[t], TimeoutElapsed(t)) :
          Goto(t, CASE r = "park" -> "tparked"
                    [] r = "true" -> RetryPc(t)
                    [] OTHER -> TimeoutPc(op[t]), "false", cur[t], {})
    /\ UNCHANGED <<writing_num_, holding_num_, platform, op, xheld, sheld, owner, datavars, xcalls>>

\* A parked timed wait ends without a notify: the deadline is reached (both
\* platforms), or FUTEX_WAIT is interrupted (EINTR, Linux): wait_until is false.
Timeout(t) ==
    /\ pc[t] = "tparked"
    /\ platform = "linux" \/ expired[t]
    /\ Goto(t, TimeoutPc(op[t]), "false", cur[t], {})
    /\ UNCHANGED <<writing_num_, holding_num_, platform, op, xheld, sheld, owner, datavars, xcalls>>

\* A parked wait returns although nobody notified it (FUTEX_WAIT returning 0,
\* WaitOnAddress returning TRUE): the loop calls fn() again.
SpuriousWake(t) ==
    /\ pc[t] \in {"parked", "tparked"}
    /\ Goto(t, RetryPc(t), "none", cur[t], {})
    /\ UNCHANGED <<writing_num_, holding_num_, platform, op, xheld, sheld, owner, datavars, xcalls>>

\* Time passes: the deadline of a timed call in progress is reached.
Expire(t) ==
    /\ pc[t] # "idle"
    /\ op[t] \in TimedOps
    /\ ~expired[t]
    /\ expired' = [expired EXCEPT ![t] = TRUE]
    /\ UNCHANGED <<writing_num_, holding_num_, platform, pc, op, cur, res, past, wrote_h,
                   xheld, sheld, owner, datavars, xcalls>>

(***************************************************************************)
(* Exclusive ownership: lock, try_lock, try_lock_for / try_lock_until,     *)
(* unlock.                                                                 *)
(***************************************************************************)
\* A compare-exchange that looks only at the writing-state bit of holding_num_.
cas_ignores_readers(h) == h.hi = 0

\* A compare-exchange that looks only at the reader count of holding_num_.
cas_ignores_writer(h) == h.lo = 0

\* A compare-exchange that succeeds whatever holding_num_ is.
cas_always(h) == TRUE

\* A compare-exchange that fails whatever holding_num_ is.
cas_never(h) == FALSE

\* compare_exchange_strong(holding_num = 0, k_writing_state) succeeds iff
\* holding_num_ is 0.
cas_succeeds(h) == h = Zero

\* lock / try_lock / try_lock_timeout_: increase_writing_num_().  e: the deadline
\* given to a timed call has already been reached when it is called (a time
\* point that is not in the future, a duration <= 0).
StartExclusive(t, o, e) ==
    /\ pc[t] = "idle"
    /\ o \in ExclusiveOps
    /\ e => o \in TimedOps
    /\ writing_num_' = fetch_add_1(writing_num_)
    /\ pc' = [pc EXCEPT ![t] = "cas"]
    /\ op' = [op EXCEPT ![t] = o]
    /\ res' = [res EXCEPT ![t] = "none"]
    /\ expired' = [expired EXCEPT ![t] = e]
    /\ past' = [past EXCEPT ![t] = e]
    /\ wrote_h' = [wrote_h EXCEPT ![t] = FALSE]
    /\ owner' = [owner EXCEPT ![t] = 0]
    /\ UNCHANGED <<holding_num_, platform, cur, xheld, sheld>>

\* try_set_writing_state_to_holding_num_(): the CAS of holding_num_ from 0 to
\* k_writing_state, and what its caller does with the value it returns.
try_set_writing_state_to_holding_num_(t) ==
    /\ pc[t] = "cas"
    /\ IF cas_succeeds(holding_num_)
       THEN /\ holding_num_' = k_writing_state
            /\ xheld' = [xheld EXCEPT ![t] = @ + 1]
            /\ Goto(t, "idle", "true", Zero, {})
       ELSE /\ Goto(t, FailPc(op[t]), "false", holding_num_, {})
            /\ UNCHANGED <<holding_num_, xheld, owner>>
    /\ UNCHANGED <<writing_num_, platform, op, sheld, owner, datavars, xcalls>>

\* decrease_writing_num_(): the fetch_sub, true iff it read 1.  On false, unlock
\* goes on to notify a writer; try_lock and try_lock_timeout_ return false.
decrease_writing_num_(t) ==
    /\ pc[t] = "dec_w"
    /\ writing_num_' = fetch_sub_1(writing_num_)
    /\ Goto(t, IF writing_num_ = One THEN "notify_w"
               ELSE IF op[t] = "unlock" THEN "notify_h" ELSE "idle", "false", Zero, {})
    /\ UNCHANGED <<holding_num_, platform, op, xheld, sheld, owner, datavars, xcalls>>

\* decrease_writing_num_(): writing_num_.notify_all(), then the caller returns
\* (unlock: void; try_lock / try_lock_timeout_: false).
notify_all_readers(t) ==
    /\ pc[t] = "notify_w"
    /\ \E S \in notify_all(FALSE) :
          Goto(t, "idle", IF op[t] = "unlock" THEN "void" ELSE "false", Zero, S)
    /\ UNCHANGED <<writing_num_, holding_num_, platform, op, xheld, sheld, owner, datavars, xcalls>>

\* unlock(): holding_num_.fetch_sub(k_writing_state), releasing the hold that
\* thread o acquired.
unlock(t, o) ==
    /\ pc[t] = "idle"
    /\ xheld[o] > 0
    /\ xheld' = [xheld EXCEPT ![o] = @ - 1]
    /\ holding_num_' = fetch_sub_writing(holding_num_)
    /\ pc' = [pc EXCEPT ![t] = "dec_w"]
    /\ op' = [op EXCEPT ![t] = "unlock"]
    /\ res' = [res EXCEPT ![t] = "none"]
    /\ owner' = [owner EXCEPT ![t] = o]
    /\ wrote_h' = [wrote_h EXCEPT ![t] = FALSE]
    /\ UNCHANGED <<writing_num_, platform, cur, expired, past, sheld>>

\* unlock(): holding_num_.notify_one() when decrease_writing_num_() was false.
unlock_notify_one(t) ==
    /\ pc[t] = "notify_h"
    /\ \E S \in notify_one(TRUE) : Goto(t, "idle", "void", Zero, S)
    /\ UNCHANGED <<writing_num_, holding_num_, platform, op, xheld, sheld, owner, datavars, xcalls>>

(***************************************************************************)
(* Shared ownership: lock_shared, try_lock_shared, try_lock_shared_for /   *)
(* try_lock_shared_until, unlock_shared.                                   *)
(***************************************************************************)
\* A first check that lets every reader go on to the fetch_add.
always_enter(w) == TRUE

\* A first check that lets no reader in.
never_enter(w) == FALSE

\* try_lock_shared_internal_(): if (writing_num == 0), on the first load.
reader_may_enter(w) == w = Zero

\* A second check that never sends the reader back.
never_back_out(w) == FALSE

\* try_lock_shared_internal_(): (writing_num = writing_num_.load()) > 0, on the
\* load that follows the fetch_add.
reader_must_back_out(w) == w # Zero

\* try_lock_shared_internal_(): the first load of writing_num_ by a call o.
load_writing_num_(t, o) ==
    IF reader_may_enter(writing_num_)
    THEN Goto(t, "inc_h", "none", writing_num_, {})
    ELSE Goto(t, FailPc(o), "false", writing_num_, {})

\* lock_shared / try_lock_shared / try_lock_shared_timeout_ is called.
StartShared(t, o, e) ==
    /\ pc[t] = "idle"
    /\ o \in SharedOps
    /\ e => o \in TimedOps
    /\ SharedHolds < MaxShared
    /\ op' = [op EXCEPT ![t] = o]
    /\ owner' = [owner EXCEPT ![t] = 0]
    /\ pc' = [pc EXCEPT ![t] = IF reader_may_enter(writing_num_) THEN "inc_h" ELSE FailPc(o)]
    /\ res' = [res EXCEPT ![t] =
                  IF ~reader_may_enter(writing_num_) /\ FailPc(o) = "idle" THEN "false" ELSE "none"]
    /\ cur' = [cur EXCEPT ![t] =
                  IF ~reader_may_enter(writing_num_) /\ FailPc(o) = "idle" THEN Zero ELSE writing_num_]
    /\ expired' = [expired EXCEPT ![t] =
                  IF ~reader_may_enter(writing_num_) /\ FailPc(o) = "idle" THEN FALSE ELSE e]
    /\ past' = [past EXCEPT ![t] =
                  IF ~reader_may_enter(writing_num_) /\ FailPc(o) = "idle" THEN FALSE
                  ELSE e]
    /\ wrote_h' = [wrote_h EXCEPT ![t] = FALSE]
    /\ UNCHANGED <<writing_num_, holding_num_, platform, xheld, sheld>>

\* The loop of atomic_wait_until_zero(_with_timeout_) calls
\* try_lock_shared_internal_() again.
try_lock_shared_internal_(t) ==
    /\ pc[t] = "load1"
    /\ load_writing_num_(t, op[t])
    /\ UNCHANGED <<writing_num_, holding_num_, platform, op, xheld, sheld, owner, datavars, xcalls>>

\* try_lock_shared_internal_(): holding_num_.fetch_add(1)
increase_holding_num_(t) ==
    /\ pc[t] = "inc_h"
    /\ holding_num_' = fetch_add_1(holding_num_)
    /\ Goto(t, "load2", "none", cur[t], {})
    /\ UNCHANGED <<writing_num_, platform, op, xheld, sheld, owner, datavars, xcalls>>

\* try_lock_shared_internal_(): the second load of writing_num_; 0 is success,
\* anything else leads into unlock_shared().
recheck_writing_num_(t) ==
    /\ pc[t] = "load2"
    /\ IF reader_must_back_out(writing_num_)
       THEN /\ Goto(t, "us_sub", "none", writing_num_, {})
            /\ UNCHANGED sheld
       ELSE /\ sheld' = [sheld EXCEPT ![t] = @ + 1]
            /\ Goto(t, "idle", "true", Zero, {})
    /\ UNCHANGED <<writing_num_, holding_num_, platform, op, xheld, owner, datavars, xcalls>>

\* A back-out that ends the acquire as soon as its unlock_shared() is done.
back_out_returns(o) == "idle"

\* Where unlock_shared() returns to: its caller, or the shared acquire that
\* backed out with it (fn() then returns writing_num > 0).
AfterUnlockShared(o) == IF o = "unlock_shared" THEN "idle" ELSE FailPc(o)

UnlockSharedResult(o) == IF o = "unlock_shared" THEN "void" ELSE "false"

\* unlock_shared(): holding_num_.fetch_sub(1) == 1
fetch_sub_holding_num_(t, o) ==
    /\ holding_num_' = fetch_sub_1(holding_num_)
    /\ pc' = [pc EXCEPT ![t] = IF holding_num_ = One THEN "us_load" ELSE AfterUnlockShared(o)]
    /\ res' = [res EXCEPT ![t] =
                  IF holding_num_ # One /\ AfterUnlockShared(o) = "idle"
                  THEN UnlockSharedResult(o) ELSE "none"]
    /\ cur' = [cur EXCEPT ![t] =
                  IF holding_num_ # One /\ AfterUnlockShared(o) = "idle" THEN Zero ELSE @]
    /\ expired' = [expired EXCEPT ![t] =
                  IF holding_num_ # One /\ AfterUnlockShared(o) = "idle" THEN FALSE ELSE @]
    /\ wrote_h' = [wrote_h EXCEPT ![t] = o # "unlock_shared" /\ @]
    /\ UNCHANGED past

\* unlock_shared() is called to release a shared hold that thread o acquired.
unlock_shared(t, o) ==
    /\ pc[t] = "idle"
    /\ sheld[o] > 0
    /\ sheld' = [sheld EXCEPT ![o] = @ - 1]
    /\ op' = [op EXCEPT ![t] = "unlock_shared"]
    /\ owner' = [owner EXCEPT ![t] = o]
    /\ fetch_sub_holding_num_(t, "unlock_shared")
    /\ UNCHANGED <<writing_num_, platform, xheld>>

\* try_lock_shared_internal_() backs out: unlock_shared()
back_out(t) ==
    /\ pc[t] = "us_sub"
    /\ fetch_sub_holding_num_(t, op[t])
    /\ UNCHANGED <<writing_num_, platform, op, xheld, sheld, owner, datavars, xcalls>>

\* unlock_shared(): && writing_num_.load() > 0
unlock_shared_load_(t) ==
    /\ pc[t] = "us_load"
    /\ Goto(t, IF writing_num_ # Zero THEN "us_notify" ELSE AfterUnlockShared(op[t]),
            UnlockSharedResult(op[t]), cur[t], {})
    /\ UNCHANGED <<writing_num_, holding_num_, platform, op, xheld, sheld, owner, datavars, xcalls>>

\* unlock_shared(): holding_num_.notify_one()
unlock_shared_notify_one(t) ==
    /\ pc[t] = "us_notify"
    /\ \E S \in notify_one(TRUE) :
          Goto(t, AfterUnlockShared(op[t]), UnlockSharedResult(op[t]), cur[t], S)
    /\ UNCHANGED <<writing_num_, holding_num_, platform, op, xheld, sheld, owner, datavars, xcalls>>

(***************************************************************************)
(* Any interleaving of the calls of the threads.                           *)
(***************************************************************************)
\* A step of the code of the exclusive operations.
ExclusiveStep(t) ==
    \/ try_set_writing_state_to_holding_num_(t)
    \/ decrease_writing_num_(t)
    \/ notify_all_readers(t)
    \/ unlock_notify_one(t)

\* A step of the code of the shared operations.
SharedStep(t) ==
    \/ try_lock_shared_internal_(t)
    \/ increase_holding_num_(t)
    \/ recheck_writing_num_(t)
    \/ back_out(t)
    \/ unlock_shared_load_(t)
    \/ unlock_shared_notify_one(t)

\* A step inside a call in progress.
Step(t) ==
    \/ ExclusiveStep(t)
    \/ SharedStep(t)
    \/ wait(t)
    \/ atomic_wait_timeout_(t)

\* What the environment of a call does to it: the clock and the kernel.
Env(t) ==
    \/ Timeout(t)
    \/ SpuriousWake(t)
    \/ Expire(t)

\* A thread calls an operation of the mutex; a release may be called by a thread
\* other than the one that acquired the hold.
Call(t) ==
    \/ \E o \in ExclusiveOps, e \in BOOLEAN :
          StartExclusive(t, o, e) /\ UNCHANGED <<datavars, xcalls>>
    \/ \E o \in SharedOps, e \in BOOLEAN :
          StartShared(t, o, e) /\ UNCHANGED <<datavars, xcalls>>
    \/ \E o \in Threads : unlock(t, o) /\ UNCHANGED <<datavars, xcalls>>
    \/ \E o \in Threads : unlock_shared(t, o) /\ UNCHANGED <<datavars, xcalls>>

Next == \E t \in Threads : Call(t) \/ Step(t) \/ Env(t)

Spec == Init /\ [][Next]_vars

(***************************************************************************)
(* One call at a time: a thread calls or steps only while every other       *)
(* thread is between calls, as in the typed tests of test_shared_mutex.     *)
(***************************************************************************)
AllOthersIdle(t) == \A u \in Threads \ {t} : pc[u] = "idle"

NextSeq ==
    \E t \in Threads :
        \/ AllOthersIdle(t) /\ Call(t)
        \/ AllOthersIdle(t) /\ Step(t)
        \/ AllOthersIdle(t) /\ Env(t)

SpecSeq == Init /\ [][NextSeq]_vars

(***************************************************************************)
(* The benchmark: every thread runs operate_object again and again, on an   *)
(* object { a_, b_ } behind a lock_wrapper.  A write is ++a_; ++b_ under an  *)
(* exclusive handle, a read is EXPECT_EQ(a_, b_) under a shared handle; the  *)
(* handle releases its hold when it goes out of scope.                      *)
(***************************************************************************)
\* operate_object: auto locked_obj = lock_fn(), with lock, try_lock or
\* try_lock_for (a write task) or their shared forms (a read task).
lock_fn(t) ==
    /\ task[t] = "none"
    /\ \/ /\ wcount < MaxWrites
          /\ \E o \in ExclusiveOps \ UntilOps : StartExclusive(t, o, FALSE)
          /\ task' = [task EXCEPT ![t] = "write"]
       \/ /\ \E o \in SharedOps \ UntilOps : StartShared(t, o, FALSE)
          /\ task' = [task EXCEPT ![t] = "read"]
    /\ UNCHANGED <<a_, b_, tmp, wcount, xcalls, k_type, lock_wrapper_, mutex_2, copying>>

\* operate_object: if (locked_obj) is false, nothing is done to the object.
null_handle(t) ==
    /\ task[t] \in {"write", "read"}
    /\ pc[t] = "idle" /\ res[t] = "false"
    /\ task' = [task EXCEPT ![t] = "none"]
    /\ UNCHANGED <<lockvars, a_, b_, tmp, wcount, xcalls, k_type, lock_wrapper_, mutex_2, copying>>

\* object::write, ++a_: the load of a_.  The acquisition has succeeded.
write_load_a(t) ==
    /\ task[t] = "write"
    /\ pc[t] = "idle" /\ res[t] = "true"
    /\ tmp' = [tmp EXCEPT ![t] = a_]
    /\ wcount' = wcount + 1
    /\ task' = [task EXCEPT ![t] = "w_a"]
    /\ UNCHANGED <<lockvars, a_, b_, xcalls, k_type, lock_wrapper_, mutex_2, copying>>

\* object::write, ++a_: the store to a_.
write_store_a(t) ==
    /\ task[t] = "w_a"
    /\ a_' = tmp[t] + 1
    /\ task' = [task EXCEPT ![t] = "w_b"]
    /\ UNCHANGED <<lockvars, b_, tmp, wcount, xcalls, k_type, lock_wrapper_, mutex_2, copying>>

\* object::write, ++b_: the load of b_.
write_load_b(t) ==
    /\ task[t] = "w_b"
    /\ tmp' = [tmp EXCEPT ![t] = b_]
    /\ task' = [task EXCEPT ![t] = "w_b_st"]
    /\ UNCHANGED <<lockvars, a_, b_, wcount, xcalls, k_type, lock_wrapper_, mutex_2, copying>>

\* object::write, ++b_: the store to b_.
write_store_b(t) ==
    /\ task[t] = "w_b_st"
    /\ b_' = tmp[t] + 1
    /\ tmp' = [tmp EXCEPT ![t] = 0]
    /\ task' = [task EXCEPT ![t] = "w_done"]
    /\ UNCHANGED <<lockvars, a_, wcount, xcalls, k_type, lock_wrapper_, mutex_2, copying>>

\* object::read, EXPECT_EQ(a_, b_): the load of a_.  The acquisition has succeeded.
read_load_a(t) ==
    /\ task[t] = "read"
    /\ pc[t] = "idle" /\ res[t] = "true"
    /\ tmp' = [tmp EXCEPT ![t] = a_]
    /\ task' = [task EXCEPT ![t] = "r_b"]
    /\ UNCHANGED <<lockvars, a_, b_, wcount, xcalls, k_type, lock_wrapper_, mutex_2, copying>>

\* object::read, EXPECT_EQ(a_, b_): the load of b_ and the comparison.
read_load_b(t) ==
    /\ task[t] = "r_b"
    /\ tmp' = [tmp EXCEPT ![t] = 0]
    /\ task' = [task EXCEPT ![t] = "r_done"]
    /\ UNCHANGED <<lockvars, a_, b_, wcount, xcalls, k_type, lock_wrapper_, mutex_2, copying>>

\* operate_object returns: ~locked_ptr_template releases the hold of the handle.
release_handle(t) ==
    /\ \/ task[t] = "w_done" /\ unlock(t, t)
       \/ task[t] = "r_done" /\ unlock_shared(t, t)
    /\ task' = [task EXCEPT ![t] = "none"]
    /\ UNCHANGED <<a_, b_, tmp, wcount, xcalls, k_type, lock_wrapper_, mutex_2, copying>>

NextBench ==
    \E t \in Threads :
        \/ lock_fn(t)
        \/ null_handle(t)
        \/ write_load_a(t)
        \/ write_store_a(t)
        \/ write_load_b(t)
        \/ write_store_b(t)
        \/ read_load_a(t)
        \/ read_load_b(t)
        \/ release_handle(t)
        \/ Step(t)
        \/ Env(t)

SpecBench == Init /\ [][NextBench]_vars

(***************************************************************************)
(* One writer against readers: thread Writer calls the blocking lock()      *)
(* once; every other thread loops on try_lock_shared or lock_shared and     *)
(* releases the hold it got before it asks again.                           *)
(***************************************************************************)
Writer == NumThreads

Readers == Threads \ {Writer}

writer_locks ==
    /\ xheld[Writer] = 0
    /\ StartExclusive(Writer, "lock", FALSE)
    /\ UNCHANGED <<datavars, xcalls>>

writer_unlocks ==
    /\ unlock(Writer, Writer)
    /\ UNCHANGED <<datavars, xcalls>>

reader_acquires(t) ==
    /\ t \in Readers
    /\ sheld[t] = 0
    /\ \E o \in {"try_lock_shared", "lock_shared"} : StartShared(t, o, FALSE)
    /\ UNCHANGED <<datavars, xcalls>>

reader_releases(t) ==
    /\ t \in Readers
    /\ unlock_shared(t, t)
    /\ UNCHANGED <<datavars, xcalls>>

\* A step inside lock(), unlock() with no second writer, or a shared operation.
StepWriterReaders(t) ==
    \/ try_set_writing_state_to_holding_num_(t)
    \/ decrease_writing_num_(t)
    \/ notify_all_readers(t)
    \/ SharedStep(t)
    \/ wait(t)

NextWriterReaders ==
    \/ writer_locks
    \/ writer_unlocks
    \/ \E t \in Threads :
          \/ reader_acquires(t)
          \/ reader_releases(t)
          \/ StepWriterReaders(t)
          \/ SpuriousWake(t)

\* Weak fairness: a thread whose next step stays possible takes it, and a reader
\* that holds releases.  A wait that nobody notifies need not return.
FairWriterReaders ==
    \A t \in Threads : WF_vars(StepWriterReaders(t)) /\ WF_vars(reader_releases(t))

SpecWriterReaders == Init /\ [][NextWriterReaders]_vars /\ FairWriterReaders

(***************************************************************************)
(* Writer demand that ends: at most MaxExclusive exclusive acquires are     *)
(* started, a thread that holds exclusively does nothing but unlock, and    *)
(* threads call lock_shared and unlock_shared as they like.                 *)
(***************************************************************************)
exclusive_acquire(t) ==
    /\ xheld[t] = 0
    /\ xcalls < MaxExclusive
    /\ \E o \in ExclusiveOps, e \in BOOLEAN : StartExclusive(t, o, e)
    /\ xcalls' = xcalls + 1
    /\ UNCHANGED datavars

shared_acquire(t) ==
    /\ xheld[t] = 0
    /\ StartShared(t, "lock_shared", FALSE)
    /\ UNCHANGED <<datavars, xcalls>>

holder_unlocks(t) == unlock(t, t) /\ UNCHANGED <<datavars, xcalls>>

holder_unlocks_shared(t) == unlock_shared(t, t) /\ UNCHANGED <<datavars, xcalls>>

NextDemandEnds ==
    \E t \in Threads :
        \/ exclusive_acquire(t)
        \/ shared_acquire(t)
        \/ holder_unlocks(t)
        \/ holder_unlocks_shared(t)
        \/ Step(t)
        \/ Env(t)

\* Fairness: a thread whose next step stays possible takes it, an exclusive
\* holder unlocks, the clock reaches the deadline of a timed call, and a timed
\* wait that is entered again and again ends by its deadline at last.  Nothing
\* makes a shared holder release.
FairDemandEnds ==
    \A t \in Threads :
        /\ WF_vars(Step(t))
        /\ WF_vars(holder_unlocks(t))
        /\ WF_vars(Expire(t))
        /\ SF_vars(Timeout(t))

SpecDemandEnds == Init /\ [][NextDemandEnds]_vars /\ FairDemandEnds

(***************************************************************************)
(* Properties of every interleaving.                                       *)
(***************************************************************************)
TryOps == {"try_lock", "try_lock_shared"} \cup TimedOps

\* The call of thread t returns in this step after at least one step of its own.
Returns(t) == pc[t] # "idle" /\ pc'[t] = "idle"

\* C1. Mutual exclusion: in every reachable state of any interleaving of the eight
\* operations, at most one exclusive hold exists, and no shared hold exists while
\* an exclusive hold exists.
MutualExclusion ==
    /\ ExclusiveHolds <= 1
    /\ ExclusiveHolds = 1 => SharedHolds = 0

\* An exclusive hold exists while a reader that slipped past the first check has
\* incremented holding_num_ to k_writing_state + 1 and is about to back out.
MutualExclusionWitness ==
    \E w, r \in Threads :
        /\ xheld[w] = 1
        /\ pc[r] = "us_sub"
        /\ holding_num_ = [hi |-> 1, lo |-> 1]

\* An exclusive acquire (a blocking lock() among them) has incremented
\* writing_num_ and has not yet acquired or given up, or an exclusive hold exists,
\* or the unlock of a hold has not yet decremented writing_num_.
WriterDemand ==
    \/ \E t \in Threads :
          op[t] \in ExclusiveOps /\ pc[t] \in {"cas", "wait", "twait", "parked", "tparked", "dec_w"}
    \/ ExclusiveHolds > 0
    \/ \E t \in Threads : op[t] = "unlock" /\ pc[t] = "dec_w"

\* C2. Writer priority: from the moment a blocking lock() (or any other exclusive
\* acquire) has incremented writing_num_ until that writer has acquired, released,
\* and its unlock has decremented writing_num_, no shared acquire of any kind
\* returns success: no step adds a shared hold.
WriterPriority ==
    [][WriterDemand => \A t \in Threads : sheld'[t] <= sheld[t]]_vars

\* Starting from shared holders only, a lock() is parked, and a try_lock_shared
\* called after it has returned false.
WriterPriorityWitness ==
    \E w, r \in Threads :
        /\ op[w] = "lock" /\ pc[w] = "parked"
        /\ SharedHolds > 0 /\ ExclusiveHolds = 0
        /\ op[r] = "try_lock_shared" /\ pc[r] = "idle" /\ res[r] = "false"

\* Thread t is parked on holding_num_ in lock(), or in a timed exclusive acquire
\* whose deadline has not been reached.
ParkedWriter(t) ==
    \/ op[t] = "lock" /\ pc[t] = "parked"
    \/ op[t] \in TimedOps \cap ExclusiveOps /\ pc[t] = "tparked" /\ ~expired[t]

\* C4. No lost wakeup for writers: no reachable state has holding_num_ = 0, a
\* thread parked on holding_num_, and every other thread without a call in
\* progress (idle or itself parked) and no hold left to release.
NoLostWakeup ==
    ~ /\ holding_num_ = Zero
      /\ \E t \in Threads : ParkedWriter(t)
      /\ \A t \in Threads : pc[t] \in {"idle", "parked", "tparked"}
      /\ ExclusiveHolds = 0 /\ SharedHolds = 0

\* The lock has become free while a writer is parked, and the releasing thread
\* is about to notify it.
NoLostWakeupWitness ==
    /\ holding_num_ = Zero
    /\ \E t \in Threads : ParkedWriter(t)
    /\ \E u \in Threads : pc[u] \in {"notify_h", "us_notify"}

\* C8. While an exclusive hold exists, a try_lock, timed try_lock, try_lock_shared
\* or timed try_lock_shared that returns returns false, and it leaves the holds as
\* they were.
TryFailsWhileExclusive ==
    [][\A t \in Threads :
          (ExclusiveHolds = 1 /\ op'[t] \in TryOps /\ pc'[t] = "idle"
              /\ (pc[t] # "idle" \/ op'[t] # op[t] \/ res'[t] # res[t]))
          => (res'[t] = "false" /\ xheld' = xheld /\ sheld' = sheld)]_vars

\* An exclusive hold exists and a timed try of another thread, exclusive or
\* shared, has returned false on Windows, where that takes the deadline.
TryFailsWhileExclusiveWitness ==
    \E h, t \in Threads :
        /\ xheld[h] = 1
        /\ h # t
        /\ op[t] \in TimedOps /\ pc[t] = "idle" /\ res[t] = "false"
        /\ platform = "windows"

(***************************************************************************)
(* Properties of calls made one at a time.                                 *)
(***************************************************************************)
\* No thread has a call in progress.
Quiescent == \A t \in Threads : pc[t] = "idle"

\* C7. Exclusive availability follows releases: with no other call in progress, a
\* try_lock or timed try_lock that returns returns true exactly when no hold
\* exists: right after the unlock of the exclusive hold and once every shared
\* hold has been released, and not while a shared hold remains.
ExclusiveAvailability ==
    [][\A t \in Threads :
          (op[t] \in TryOps \cap ExclusiveOps /\ Returns(t))
          => ((res'[t] = "true") <=> (ExclusiveHolds = 0 /\ SharedHolds = 0))]_vars

\* A shared hold of thread t has been released by thread u, and the try_lock or
\* timed try_lock that t called afterwards has returned true.
ExclusiveAvailabilityWitness ==
    \E t, u \in Threads :
        /\ t # u
        /\ op[u] = "unlock_shared" /\ owner[u] = t /\ pc[u] = "idle"
        /\ op[t] \in TryOps \cap ExclusiveOps /\ pc[t] = "idle" /\ res[t] = "true"
        /\ xheld[t] = 1

\* C9. Shared ownership is re-acquirable: with no exclusive hold and no other call
\* in progress writing_num_ is 0, and a shared acquire during which writing_num_
\* is 0 returns true and adds exactly one shared hold, whether or not shared
\* holds exist already and whether or not an exclusive hold existed before.
SharedReacquirable ==
    /\ [](Quiescent /\ ExclusiveHolds = 0 => writing_num_ = Zero)
    /\ [][\A t \in Threads :
            (op[t] \in SharedOps /\ Returns(t) /\ writing_num_ = Zero)
            => /\ res'[t] = "true"
               /\ sheld'[t] = sheld[t] + 1
               /\ SharedHolds' = SharedHolds + 1]_vars

\* After an exclusive lock/unlock pair a thread holds two shared holds, the
\* second one acquired by a timed try_lock_shared while the first existed.
SharedReacquirableWitness ==
    \E t, u \in Threads :
        /\ op[u] = "unlock" /\ pc[u] = "idle"
        /\ op[t] \in TryOps \cap SharedOps /\ pc[t] = "idle" /\ res[t] = "true"
        /\ sheld[t] = 2

\* The last call of thread b released a hold that thread a had acquired.
CrossReleased(a, b) ==
    a # b /\ op[b] \in ReleaseOps /\ pc[b] = "idle" /\ owner[b] = a

\* C10. Holder identity is not bound to a thread: after thread b has released the
\* only hold, one that thread a acquired, both counters are 0 (the free state),
\* and a try_lock that a calls then returns true.
CrossThreadRelease ==
    /\ [](\A a, b \in Threads :
            (CrossReleased(a, b) /\ Quiescent /\ ExclusiveHolds = 0 /\ SharedHolds = 0)
            => (writing_num_ = Zero /\ holding_num_ = Zero))
    /\ [][\A a, b \in Threads :
            (CrossReleased(a, b) /\ ExclusiveHolds = 0 /\ SharedHolds = 0
                /\ op[a] = "try_lock" /\ Returns(a))
            => res'[a] = "true"]_vars

\* Thread b has released the exclusive hold that thread a acquired, and the
\* try_lock that a called afterwards has returned true.
CrossThreadReleaseWitness ==
    \E a, b \in Threads :
        /\ CrossReleased(a, b) /\ op[b] = "unlock"
        /\ op[a] = "try_lock" /\ pc[a] = "idle" /\ res[a] = "true" /\ xheld[a] = 1

(***************************************************************************)
(* Properties of the benchmark.                                            *)
(***************************************************************************)
\* C3. Data consistency under the lock: a read under a shared handle finds b_
\* equal to the a_ it has just read, and whenever no thread is inside
\* operate_object a_ (and b_) is the number of write operations whose acquisition
\* succeeded.
DataConsistency ==
    /\ \A t \in Threads : task[t] = "r_b" => tmp[t] = b_
    /\ (Quiescent /\ \A t \in Threads : task[t] = "none") => (a_ = wcount /\ b_ = wcount)

\* All threads are done, MaxWrites writes were made, and the last operations of
\* two threads were a read and a write.
DataConsistencyWitness ==
    /\ Quiescent /\ \A t \in Threads : task[t] = "none"
    /\ a_ = MaxWrites
    /\ \E t, u \in Threads : op[t] = "unlock_shared" /\ op[u] = "unlock"

(***************************************************************************)
(* Liveness.                                                               *)
(***************************************************************************)
\* C5. Writer liveness against readers: with one thread calling lock() and the
\* other threads looping on try_lock_shared or lock_shared and releasing every
\* hold they get, under weak fairness the lock() returns with the exclusive hold.
WriterLiveness ==
    (op[Writer] = "lock" /\ pc[Writer] # "idle") ~> (xheld[Writer] = 1 /\ pc[Writer] = "idle")

\* The writer holds exclusively, and the try_lock_shared of a reader has been
\* refused.
WriterLivenessWitness ==
    /\ xheld[Writer] = 1
    /\ \E r \in Readers : op[r] = "try_lock_shared" /\ res[r] = "false" /\ pc[r] = "idle"

\* Thread t is inside lock_shared().
InLockShared(t) == op[t] = "lock_shared" /\ pc[t] # "idle"

\* C6 as stated. Reader liveness once writer demand ends: in every fair execution
\* with finitely many exclusive acquires started and every exclusive holder
\* unlocking, every lock_shared() returns with shared ownership.
ReaderLivenessAsStated ==
    \A t \in Threads : InLockShared(t) ~> (op[t] = "lock_shared" /\ pc[t] = "idle" /\ res[t] = "true")

\* C6, amended. In every such execution in which, besides, the shared holds are
\* released (again and again no shared hold exists), every lock_shared() returns
\* with shared ownership.
ReaderLiveness ==
    ([]<>(SharedHolds = 0))
    => \A t \in Threads : InLockShared(t) ~> (~InLockShared(t) /\ res[t] = "true")

\* A lock_shared() has returned with a hold after MaxExclusive exclusive acquires
\* were started and an exclusive hold was unlocked.
ReaderLivenessWitness ==
    \E t, w \in Threads :
        /\ op[t] = "lock_shared" /\ pc[t] = "idle" /\ res[t] = "true" /\ sheld[t] > 0
        /\ op[w] = "unlock" /\ pc[w] = "idle"
        /\ xcalls = MaxExclusive

(***************************************************************************)
(* Round trips and the calls that do not wait.                             *)
(***************************************************************************)
\* C11. Round trip to the free state: whenever, after any interleaving of calls,
\* every call has returned and every hold that was acquired has been released,
\* writing_num_ is 0 and holding_num_ is 0, as after construction.
RoundTrip ==
    (Quiescent /\ ExclusiveHolds = 0 /\ SharedHolds = 0)
    => (writing_num_ = Zero /\ holding_num_ = Zero)

\* Every call has returned and no hold is left, after one thread has unlocked an
\* exclusive hold and another has released a shared hold that a successful
\* try_lock_shared had acquired.
RoundTripWitness ==
    /\ Quiescent /\ ExclusiveHolds = 0 /\ SharedHolds = 0
    /\ \E t, u \in Threads :
          /\ op[t] = "unlock" /\ owner[t] = t
          /\ op[u] = "unlock_shared" /\ owner[u] = u

\* The tries that take no timeout.
NonBlockingOps == {"try_lock", "try_lock_shared"}

\* Where a call is parked on a cell, or is about to call wait / wait_for /
\* wait_until on it.
WaitPcs == {"wait", "parked", "twait", "tparked"}

\* An upper bound on the atomic steps a try_lock or try_lock_shared that is at p
\* has still to take.
Rank(p) ==
    CASE p = "idle" -> 0
      [] p = "notify_w" -> 1
      [] p = "dec_w" -> 2
      [] p = "cas" -> 3
      [] p = "us_notify" -> 4
      [] p = "us_load" -> 5
      [] p = "us_sub" -> 6
      [] p = "load2" -> 7
      [] p = "inc_h" -> 8
      [] OTHER -> 9

\* C12. The non-timed tries never block: a try_lock or try_lock_shared in progress
\* is never parked on either counter nor about to wait on one, its next step is
\* always possible whatever the other threads do, and each of its own steps
\* lowers a rank that starts at 8 at most, so it returns after at most 8 steps.
NonBlockingTry ==
    /\ [](\A t \in Threads :
            (op[t] \in NonBlockingOps /\ pc[t] # "idle")
            => (pc[t] \notin WaitPcs /\ Rank(pc[t]) <= 8 /\ ENABLED Step(t)))
    /\ [][\A t \in Threads :
            (op[t] \in NonBlockingOps /\ pc[t] # "idle")
            => /\ Step(t) => Rank(pc'[t]) < Rank(pc[t])
               /\ pc'[t] # pc[t] => Rank(pc'[t]) < Rank(pc[t])]_vars

\* A try_lock_shared on its longest path: it has backed out and is about to
\* notify a writer, and that writer is parked in lock().
NonBlockingTryWitness ==
    \E t, w \in Threads :
        /\ op[t] = "try_lock_shared" /\ pc[t] = "us_notify"
        /\ op[w] = "lock" /\ pc[w] = "parked"

(***************************************************************************)
(* Acquisitions that fail.                                                 *)
(***************************************************************************)
\* The exclusive demands that writing_num_ counts: acquires that have incremented
\* it and have neither acquired nor decremented it yet, the exclusive holds, and
\* the unlocks and failed tries that are about to decrement it.
DemandCount ==
    Cardinality({t \in Threads :
                    \/ pc[t] = "dec_w"
                    \/ op[t] \in ExclusiveOps /\ pc[t] \in {"cas"} \cup WaitPcs})
    + ExclusiveHolds

\* What a failing exclusive try of thread t does in this step: its failed CAS
\* writes neither counter; its decrement takes exactly 1 from writing_num_, leaves
\* holding_num_, and goes on to notify_all iff writing_num_ has become 0, else it
\* returns false; its notify_all wakes every reader parked on writing_num_, writes
\* neither counter, and the call returns false.
Withdraws(t) ==
    /\ (pc[t] = "cas" /\ pc'[t] \notin {"cas", "idle"})
       => (holding_num_' = holding_num_ /\ writing_num_' = writing_num_)
    /\ (pc[t] = "dec_w" /\ pc'[t] # "dec_w")
       => /\ writing_num_.hi = 0 /\ writing_num_.lo > 0
          /\ writing_num_' = U32(writing_num_.lo - 1)
          /\ holding_num_' = holding_num_
          /\ pc'[t] \in {"notify_w", "idle"}
          /\ (pc'[t] = "notify_w") <=> (writing_num_' = Zero)
          /\ pc'[t] = "idle" => res'[t] = "false"
    /\ (pc[t] = "notify_w" /\ pc'[t] # "notify_w")
       => /\ pc'[t] = "idle" /\ res'[t] = "false"
          /\ holding_num_' = holding_num_ /\ writing_num_' = writing_num_
          /\ \A u \in Threads :
                (op[u] \in SharedOps /\ pc[u] \in {"parked", "tparked"}) => pc'[u] = "load1"
    /\ (Returns(t) /\ res'[t] = "false") => pc[t] \in {"dec_w", "notify_w"}

\* C13. A failed try_lock backs out completely: its failed CAS leaves holding_num_
\* untouched, it decrements writing_num_ by exactly the 1 it added, it issues
\* notify_all on writing_num_ iff that decrement brought it to 0, and it returns
\* false; writing_num_ always equals the number of exclusive demands still
\* outstanding, so a try_lock that has returned has left nothing on it.
FailedTryLockBacksOut ==
    /\ [](writing_num_ = U32(DemandCount))
    /\ [][\A t \in Threads : op[t] = "try_lock" => Withdraws(t)]_vars

\* A try_lock has returned false while a shared hold exists; writing_num_ is 0
\* again, and the lock_shared that had parked on it has been woken.
FailedTryLockBacksOutWitness ==
    \E t, u \in Threads :
        /\ op[t] = "try_lock" /\ pc[t] = "idle" /\ res[t] = "false"
        /\ op[u] = "lock_shared" /\ pc[u] = "load1"
        /\ writing_num_ = Zero /\ SharedHolds > 0

\* C14. A timed exclusive acquire whose wait returns false withdraws its demand as
\* a failed try_lock does: it goes to the decrement without writing a counter,
\* takes exactly 1 from writing_num_, issues notify_all iff writing_num_ has
\* reached 0 and returns false.  The writing-state bit of holding_num_ is set
\* exactly while an exclusive hold exists, so nothing of the caller stays in
\* holding_num_, and no reader stays parked on a writing_num_ that is 0 once the
\* notify_all has been issued.
TimedOutLockBacksOut ==
    /\ [](holding_num_.hi = 1 <=> ExclusiveHolds = 1)
    /\ []((writing_num_ = Zero /\ \A t \in Threads : pc[t] # "notify_w") => ParkedOn(FALSE) = {})
    /\ [][\A t \in Threads :
            op[t] \in TimedOps \cap ExclusiveOps
            => /\ Withdraws(t)
               /\ (pc[t] \in {"twait", "tparked"} /\ pc'[t] \notin {"twait", "tparked", "cas"})
                  => /\ pc'[t] = "dec_w"
                     /\ holding_num_' = holding_num_ /\ writing_num_' = writing_num_]_vars

\* A timed exclusive acquire has returned false while a shared hold exists;
\* writing_num_ is 0 again, and the lock_shared that had parked on it has been
\* woken.
TimedOutLockBacksOutWitness ==
    \E t, u \in Threads :
        /\ op[t] \in TimedOps \cap ExclusiveOps /\ pc[t] = "idle" /\ res[t] = "false"
        /\ op[u] = "lock_shared" /\ pc[u] = "load1"
        /\ writing_num_ = Zero /\ SharedHolds > 0

\* C15 as stated. A timed shared acquire that returns false has written neither
\* counter during the call: the timeout comes before holding_num_ is incremented.
TimedSharedTimeoutAsStated ==
    \A t \in Threads :
        (op[t] \in TimedOps \cap SharedOps /\ pc[t] = "idle" /\ res[t] = "false") => ~wrote_h[t]

\* The shared holds and the increments of shared acquires that have not yet been
\* confirmed by the second load or undone by the back-out.
ReaderCount == SharedHolds + Cardinality({t \in Threads : pc[t] \in {"load2", "us_sub"}})

\* C15, amended. A timed shared acquire that returns false has made no net change:
\* it never writes writing_num_, its last step writes no counter and changes no
\* hold, and holding_num_ always equals the holds plus the increments of the
\* acquires that are between their fetch_add and its confirmation or undoing, so
\* whatever the call added to holding_num_ it has taken back before it returns.
TimedSharedTimeoutNoNetChange ==
    /\ [](holding_num_ = [hi |-> ExclusiveHolds, lo |-> ReaderCount])
    /\ [][\A t \in Threads :
            (op[t] \in TimedOps \cap SharedOps /\ pc[t] # "idle")
            => /\ (Step(t) \/ Timeout(t) \/ SpuriousWake(t)) => writing_num_' = writing_num_
               /\ Returns(t) /\ res'[t] = "false"
                  => /\ pc[t] \in {"twait", "tparked"}
                     /\ holding_num_' = holding_num_
                     /\ xheld' = xheld /\ sheld' = sheld]_vars

\* A timed shared acquire has returned false after it had incremented
\* holding_num_ and backed out; the writer it met holds the lock.
TimedSharedTimeoutWitness ==
    \E t, w \in Threads :
        /\ op[t] \in TimedOps \cap SharedOps /\ pc[t] = "idle" /\ res[t] = "false"
        /\ wrote_h[t]
        /\ xheld[w] = 1 /\ holding_num_ = k_writing_state

(***************************************************************************)
(* Deadlines.                                                              *)
(***************************************************************************)
\* C16 as stated. A try_lock_until whose deadline had passed when it was called
\* makes a single attempt: when its one CAS has failed, the wait it calls neither
\* parks nor sends it back to the CAS, whatever the state of the lock: the call
\* goes on to back writing_num_ out and returns false.
PastDeadlineSingleAttempt ==
    [][\A t \in Threads :
          (op[t] = "try_lock_until" /\ past[t] /\ pc[t] = "twait" /\ pc'[t] # "twait")
          => pc'[t] = "dec_w"]_vars

\* C17 as stated. Timed acquisitions fail only by timeout: the wait of a timed
\* acquire returns false, which makes the acquire return false, only when the
\* deadline has been reached; before the deadline a wait that finds the counter
\* different from the expected value does not park and returns true, so that
\* the acquire retries.
FailsOnlyByTimeout ==
    [][\A t \in Threads :
          (op[t] \in TimedOps /\ pc[t] \in {"twait", "tparked"})
          => /\ pc'[t] = TimeoutPc(op[t]) => expired[t]
             /\ (pc[t] = "twait" /\ ~expired[t] /\ AtomValue(t) # cur[t] /\ pc'[t] # "twait")
                => pc'[t] = RetryPc(t)]_vars

(***************************************************************************)
(* An exclusive hold that is never released: threads call lock() while no   *)
(* hold exists, and timed exclusive acquires at any time; nobody unlocks.   *)
(***************************************************************************)
holder_locks(t) ==
    /\ ExclusiveHolds = 0
    /\ StartExclusive(t, "lock", FALSE)
    /\ UNCHANGED <<datavars, xcalls>>

timed_try(t) ==
    /\ xheld[t] = 0
    /\ \E o \in TimedOps \cap ExclusiveOps, e \in BOOLEAN : StartExclusive(t, o, e)
    /\ UNCHANGED <<datavars, xcalls>>

\* A step inside lock() or a timed exclusive acquire while writing_num_ stays > 0.
StepHeld(t) ==
    \/ try_set_writing_state_to_holding_num_(t)
    \/ decrease_writing_num_(t)
    \/ wait(t)
    \/ atomic_wait_timeout_(t)

NextHeld ==
    \E t \in Threads :
        \/ holder_locks(t)
        \/ timed_try(t)
        \/ StepHeld(t)
        \/ Env(t)

\* Fairness: a thread whose next step stays possible takes it, the clock reaches
\* the deadline of a timed call, and a timed wait that is entered again and
\* again with its deadline reached ends by it at last.
FairHeld ==
    \A t \in Threads :
        /\ WF_vars(StepHeld(t))
        /\ WF_vars(Expire(t))
        /\ SF_vars(Timeout(t))

SpecHeld == Init /\ [][NextHeld]_vars /\ FairHeld

\* Thread t is inside a timed exclusive acquire that was given a deadline in the
\* future, while an exclusive hold exists.
WaitsForHeld(t) ==
    /\ op[t] \in TimedOps \cap ExclusiveOps /\ pc[t] # "idle" /\ ~past[t]
    /\ ExclusiveHolds = 1

\* C18 as stated. Bounded wait: with an exclusive hold that is never released, a
\* try_lock_for or try_lock_until that was given a finite deadline in the future
\* returns false at last, and the hold stays as it is.
BoundedWait ==
    /\ \A t \in Threads : WaitsForHeld(t) ~> (pc[t] = "idle" /\ res[t] = "false")
    /\ [][ExclusiveHolds = 1 => (xheld' = xheld /\ holding_num_'.hi = 1)]_vars

(***************************************************************************)
(* Timed tries on a lock that is available.                                *)
(***************************************************************************)
\* The lock is available to call o: no hold exists (exclusive calls), no
\* exclusive hold exists (shared calls).
Available(o) ==
    IF o \in ExclusiveOps THEN ExclusiveHolds = 0 /\ SharedHolds = 0 ELSE ExclusiveHolds = 0

\* C19. A timed try on an available lock succeeds at once: with no other call in
\* progress, a try_lock_for / try_lock_until called while no hold exists, and a
\* try_lock_shared_for / try_lock_shared_until called while no exclusive hold
\* exists, is never at a wait nor parked, and returns true with its hold,
\* whether its timeout is in the future, has elapsed during the call or had
\* elapsed when it was called.
TimedTryAvailable ==
    /\ [](\A t \in Threads :
            (op[t] \in TimedOps /\ pc[t] # "idle" /\ Available(op[t]))
            => pc[t] \in {"cas", "inc_h", "load2"})
    /\ [][\A t \in Threads :
            (op[t] \in TimedOps /\ Returns(t) /\ Available(op[t]))
            => /\ res'[t] = "true"
               /\ xheld'[t] + sheld'[t] = xheld[t] + sheld[t] + 1]_vars

\* A try_lock_shared_until has returned true with its hold, and a
\* try_lock_shared_for that was given a duration <= 0 has incremented
\* holding_num_ beside that hold and is about to succeed.
TimedTryAvailableWitness ==
    \E t, u \in Threads :
        /\ op[u] = "try_lock_shared_until" /\ pc[u] = "idle" /\ res[u] = "true" /\ sheld[u] = 1
        /\ op[t] = "try_lock_shared_for" /\ past[t] /\ pc[t] = "load2"
        /\ holding_num_ = U32(2)

(***************************************************************************)
(* lock_wrapper: every thread asks the wrapper for a handle, keeps the one  *)
(* it was returned and lets it go out of scope before it asks again.        *)
(***************************************************************************)
\* enum class lock_type
lock_types == {"unique_mutable", "unique_const", "shared_const"}

\* lock_helper<k>: the operations of the mutex that lock_type k stands for.
lock_helper(k) == IF k = "shared_const" THEN SharedOps ELSE ExclusiveOps

\* A try_lock_ that hands out `this` whatever the try returned.
always_this(r) == "this"

\* try_lock_: lock_helper<k_type>::try_lock(mutex_, args...) ? this : nullptr
try_lock_pointer(r) == IF r = "true" THEN "this" ELSE "nullptr"

\* lock_<k>(): lock_helper<k>::lock(mutex_) is called.
lock_(t, k) ==
    /\ k_type[t] = "none"
    /\ IF k = "shared_const" THEN StartShared(t, "lock_shared", FALSE)
       ELSE StartExclusive(t, "lock", FALSE)
    /\ k_type' = [k_type EXCEPT ![t] = k]
    /\ UNCHANGED <<a_, b_, tmp, task, wcount, lock_wrapper_, mutex_2, copying, xcalls>>

\* try_lock_<k>(args...): lock_helper<k>::try_lock(mutex_, args...) is called,
\* with no argument, a duration or a time point.
try_lock_(t, k, o, e) ==
    /\ k_type[t] = "none"
    /\ o \in lock_helper(k) \cap TryOps
    /\ IF k = "shared_const" THEN StartShared(t, o, e) ELSE StartExclusive(t, o, e)
    /\ k_type' = [k_type EXCEPT ![t] = k]
    /\ UNCHANGED <<a_, b_, tmp, task, wcount, lock_wrapper_, mutex_2, copying, xcalls>>

\* lock_ / try_lock_ return locked_ptr_template<k_type>{this}, or the pointer
\* that the result of the try selects.
locked_ptr_template(t) ==
    /\ k_type[t] # "none" /\ lock_wrapper_[t] = "none"
    /\ pc[t] = "idle"
    /\ lock_wrapper_' = [lock_wrapper_ EXCEPT ![t] =
                            IF op[t] \in TryOps THEN try_lock_pointer(res[t]) ELSE "this"]
    /\ UNCHANGED <<lockvars, a_, b_, tmp, task, wcount, k_type, mutex_2, copying, xcalls>>

\* ~locked_ptr_template(): if (lock_wrapper_) lock_helper<k_type>::unlock(mutex_)
destroy_locked_ptr(t) ==
    /\ lock_wrapper_[t] # "none"
    /\ IF lock_wrapper_[t] = "this"
       THEN IF k_type[t] = "shared_const" THEN unlock_shared(t, t) ELSE unlock(t, t)
       ELSE UNCHANGED lockvars
    /\ k_type' = [k_type EXCEPT ![t] = "none"]
    /\ lock_wrapper_' = [lock_wrapper_ EXCEPT ![t] = "none"]
    /\ UNCHANGED <<a_, b_, tmp, task, wcount, mutex_2, copying, xcalls>>

NextWrapper ==
    \E t \in Threads :
        \/ \E k \in lock_types : lock_(t, k)
        \/ \E k \in lock_types, o \in TryOps, e \in BOOLEAN : try_lock_(t, k, o, e)
        \/ locked_ptr_template(t)
        \/ destroy_locked_ptr(t)
        \/ Step(t)
        \/ Env(t)

SpecWrapper == Init /\ [][NextWrapper]_vars

\* C20. Wrapper acquisition results: a handle returned by lock, lock_const or
\* lock_shared is non-null; a handle returned by a try_lock*, try_lock_const* or
\* try_lock_shared* is null iff the try of the underlying lock returned false;
\* a null handle holds nothing, and a non-null handle holds exactly one hold of
\* the mode of its lock_type.
WrapperResults ==
    \A t \in Threads :
        lock_wrapper_[t] # "none"
        => /\ op[t] \in {"lock", "lock_shared"} => lock_wrapper_[t] = "this"
           /\ op[t] \in TryOps => (lock_wrapper_[t] = "nullptr" <=> res[t] = "false")
           /\ lock_wrapper_[t] = "nullptr" => (xheld[t] = 0 /\ sheld[t] = 0)
           /\ lock_wrapper_[t] = "this"
              => /\ xheld[t] = (IF k_type[t] = "shared_const" THEN 0 ELSE 1)
                 /\ sheld[t] = (IF k_type[t] = "shared_const" THEN 1 ELSE 0)

\* A thread has the non-null handle that lock_const returned, and the
\* try_lock_shared_for or try_lock_shared_until of another thread has returned
\* a null handle.
WrapperResultsWitness ==
    \E t, u \in Threads :
        /\ lock_wrapper_[t] = "this" /\ k_type[t] = "unique_const" /\ op[t] = "lock"
        /\ lock_wrapper_[u] = "nullptr" /\ k_type[u] = "shared_const" /\ op[u] \in TimedOps

(***************************************************************************)
(* The handles of lock_wrapper.h as objects: construction by move, by      *)
(* widening and by copy, move assignment, reset, swap and destruction.     *)
(* Thread 1 has the local variables Ptrs (ptr and ptr_2 of the tests) and  *)
(* a second wrapper obj_2; every thread has the handle its call returns.   *)
(* A pointer "this" is the wrapper whose mutex_ is writing_num_ and        *)
(* holding_num_, "obj_2" is the second wrapper, "nullptr" is null.         *)
(***************************************************************************)
\* The thread whose local variable or return value handle h is.
ThreadOf(h) == IF h \in Threads THEN h ELSE 1

\* Thread t is between two statements: in no call of the mutex, in no
\* lock_ / try_lock_ that has yet to construct its handle, in no copy.
Ready(t) ==
    /\ pc[t] = "idle"
    /\ copying[t] = 0
    /\ ~(k_type[t] # "none" /\ lock_wrapper_[t] = "none")

\* shared_mutex::lock / try_lock from call to return, on the counters m of a
\* mutex that no other thread uses: the CAS decides once and for all.
try_lock_2(m) ==
    IF cas_succeeds(m.holding_num_)
    THEN [writing_num_ |-> fetch_add_1(m.writing_num_), holding_num_ |-> k_writing_state]
    ELSE [writing_num_ |-> fetch_sub_1(fetch_add_1(m.writing_num_)), holding_num_ |-> m.holding_num_]

\* shared_mutex::lock_shared / try_lock_shared from call to return, likewise:
\* writing_num_ is the same at both loads.
try_lock_shared_2(m) ==
    IF reader_may_enter(m.writing_num_) /\ ~reader_must_back_out(m.writing_num_)
    THEN [m EXCEPT !.holding_num_ = fetch_add_1(@)]
    ELSE m

\* shared_mutex::unlock from call to return, likewise.
unlock_2(m) ==
    [writing_num_ |-> fetch_sub_1(m.writing_num_), holding_num_ |-> fetch_sub_writing(m.holding_num_)]

\* shared_mutex::unlock_shared from call to return, likewise.
unlock_shared_2(m) == [m EXCEPT !.holding_num_ = fetch_sub_1(@)]

\* An unlock helper that calls unlock() for every lock_type.
unlock_for_all(k) == "unlock"

\* lock_helper<k>::unlock
lock_helper_unlock(k) == IF k = "shared_const" THEN "unlock_shared" ELSE "unlock"

\* obj_2.lock_<k>() / obj_2.try_lock_<k>() of thread 1, from call to return of
\* the handle.  A lock or lock_shared that cannot acquire at once never
\* returns, as no other thread can release.
lock_obj_2(t, k, o) ==
    /\ t = 1 /\ Ready(t) /\ k_type[t] = "none"
    /\ o \in lock_helper(k) \cap {"lock", "lock_shared", "try_lock", "try_lock_shared"}
    /\ LET m == IF k = "shared_const" THEN try_lock_shared_2(mutex_2) ELSE try_lock_2(mutex_2)
           acquired == m.holding_num_ # mutex_2.holding_num_
       IN  /\ o \in {"lock", "lock_shared"} => acquired
           /\ mutex_2' = m
           /\ k_type' = [k_type EXCEPT ![t] = k]
           /\ lock_wrapper_' = [lock_wrapper_ EXCEPT ![t] =
                                   IF acquired THEN "obj_2" ELSE "nullptr"]
    /\ UNCHANGED <<lockvars, a_, b_, tmp, task, wcount, copying, xcalls>>

\* A release that does not test the pointer: a null handle unlocks the mutex of
\* the wrapper as well.
release_unchecked(t, k, p) ==
    IF p = "obj_2"
    THEN /\ mutex_2' = IF lock_helper_unlock(k) = "unlock_shared"
                       THEN unlock_shared_2(mutex_2) ELSE unlock_2(mutex_2)
         /\ UNCHANGED lockvars
    ELSE /\ IF lock_helper_unlock(k) = "unlock_shared" THEN unlock_shared(t, t) ELSE unlock(t, t)
         /\ UNCHANGED mutex_2

\* if (lock_wrapper_) lock_helper<k_type>::unlock(lock_wrapper_->mutex_), by
\* thread t for the pointer p of one of its handles of lock_type k.
release(t, k, p) ==
    IF p = "this"
    THEN /\ IF lock_helper_unlock(k) = "unlock_shared" THEN unlock_shared(t, t) ELSE unlock(t, t)
         /\ UNCHANGED mutex_2
    ELSE IF p = "obj_2"
    THEN /\ mutex_2' = IF lock_helper_unlock(k) = "unlock_shared"
                       THEN unlock_shared_2(mutex_2) ELSE unlock_2(mutex_2)
         /\ UNCHANGED lockvars
    ELSE UNCHANGED <<lockvars, mutex_2>>

\* A moved-from handle that keeps its pointer.
keeps_pointer(p) == p

\* What the source of a move holds afterwards: swap with a null handle, or
\* o.lock_wrapper_ = nullptr.
moved_from(p) == "nullptr"

\* A converting constructor that accepts a handle of any lock_type.
any_source(k) == TRUE

\* The one conversion between handle types: from unique_mutable (to
\* unique_const).
widening_source(k) == k = "unique_mutable"

\* locked_ptr_template(locked_ptr_template&& o) noexcept { swap(o); }
move_constructor(t, d, s) ==
    /\ Ready(t) /\ ThreadOf(s) = t /\ ThreadOf(d) = t /\ d \in Ptrs /\ d # s
    /\ k_type[d] = "none" /\ lock_wrapper_[s] # "none"
    /\ k_type' = [k_type EXCEPT ![d] = k_type[s]]
    /\ lock_wrapper_' = [lock_wrapper_ EXCEPT ![d] = lock_wrapper_[s],
                                              ![s] = moved_from(lock_wrapper_[s])]
    /\ UNCHANGED <<lockvars, a_, b_, tmp, task, wcount, mutex_2, copying, xcalls>>

\* locked_ptr_template(locked_ptr_template<lock_type::unique_mutable>&& o)
\* requires k_type == unique_const
widening_constructor(t, d, s) ==
    /\ Ready(t) /\ ThreadOf(s) = t /\ ThreadOf(d) = t /\ d \in Ptrs /\ d # s
    /\ k_type[d] = "none" /\ lock_wrapper_[s] # "none"
    /\ widening_source(k_type[s])
    /\ k_type' = [k_type EXCEPT ![d] = "unique_const"]
    /\ lock_wrapper_' = [lock_wrapper_ EXCEPT ![d] = lock_wrapper_[s],
                                              ![s] = moved_from(lock_wrapper_[s])]
    /\ UNCHANGED <<lockvars, a_, b_, tmp, task, wcount, mutex_2, copying, xcalls>>

\* locked_ptr_template(const locked_ptr_template& o) requires k_type ==
\* shared_const: the pointer is copied, then lock_shared() is called if it is
\* not null.
copy_constructor(t, d, s) ==
    /\ Ready(t) /\ ThreadOf(s) = t /\ ThreadOf(d) = t /\ d \in Ptrs /\ d # s
    /\ k_type[d] = "none" /\ lock_wrapper_[s] # "none"
    /\ k_type[s] = "shared_const"
    /\ k_type' = [k_type EXCEPT ![d] = "shared_const"]
    /\ lock_wrapper_' = [lock_wrapper_ EXCEPT ![d] = lock_wrapper_[s]]
    /\ IF lock_wrapper_[s] = "this"
       THEN /\ StartShared(t, "lock_shared", FALSE)
            /\ copying' = [copying EXCEPT ![t] = d]
            /\ UNCHANGED mutex_2
       ELSE IF lock_wrapper_[s] = "obj_2"
       THEN /\ try_lock_shared_2(mutex_2) # mutex_2
            /\ mutex_2' = try_lock_shared_2(mutex_2)
            /\ UNCHANGED <<lockvars, copying>>
       ELSE UNCHANGED <<lockvars, mutex_2, copying>>
    /\ UNCHANGED <<a_, b_, tmp, task, wcount, xcalls>>

\* The lock_shared() of the copy constructor has returned: the copy exists.
copy_constructed(t) ==
    /\ copying[t] # 0 /\ pc[t] = "idle"
    /\ copying' = [copying EXCEPT ![t] = 0]
    /\ UNCHANGED <<lockvars, a_, b_, tmp, task, wcount, k_type, lock_wrapper_, mutex_2, xcalls>>

\* ~locked_ptr_template() of handle h
destroy(t, h) ==
    /\ Ready(t) /\ ThreadOf(h) = t
    /\ lock_wrapper_[h] # "none"
    /\ release(t, k_type[h], lock_wrapper_[h])
    /\ k_type' = [k_type EXCEPT ![h] = "none"]
    /\ lock_wrapper_' = [lock_wrapper_ EXCEPT ![h] = "none"]
    /\ UNCHANGED <<a_, b_, tmp, task, wcount, copying, xcalls>>

\* void reset() { locked_ptr_template{}.swap(*this); }: the temporary takes
\* the pointer and is destroyed.
reset(t, h) ==
    /\ Ready(t) /\ ThreadOf(h) = t
    /\ lock_wrapper_[h] # "none"
    /\ release(t, k_type[h], lock_wrapper_[h])
    /\ lock_wrapper_' = [lock_wrapper_ EXCEPT ![h] = "nullptr"]
    /\ UNCHANGED <<a_, b_, tmp, task, wcount, k_type, copying, xcalls>>

\* operator=(std::nullptr_t) { reset(); return *this; }
assign_nullptr(t, h) == reset(t, h)

\* operator=(locked_ptr_template&& o): locked_ptr_template(std::move(o)).swap(*this);
\* the temporary takes the pointer of o, swaps it for that of *this and is
\* destroyed.  A unique_mutable o is first widened to the type of *this.
move_assign(t, d, s) ==
    /\ Ready(t) /\ ThreadOf(s) = t /\ ThreadOf(d) = t
    /\ lock_wrapper_[d] # "none" /\ lock_wrapper_[s] # "none"
    /\ \/ k_type[s] = k_type[d]
       \/ k_type[s] = "unique_mutable" /\ k_type[d] = "unique_const"
    /\ IF d = s
       THEN UNCHANGED <<lockvars, lock_wrapper_, mutex_2>>
       ELSE /\ lock_wrapper_' = [lock_wrapper_ EXCEPT ![d] = lock_wrapper_[s],
                                                      ![s] = moved_from(lock_wrapper_[s])]
            /\ release(t, k_type[d], lock_wrapper_[d])
    /\ UNCHANGED <<a_, b_, tmp, task, wcount, k_type, copying, xcalls>>

\* void swap(locked_ptr_template& o): std::swap(lock_wrapper_, o.lock_wrapper_)
swap(t, a, b) ==
    /\ Ready(t) /\ ThreadOf(a) = t /\ ThreadOf(b) = t
    /\ lock_wrapper_[a] # "none" /\ lock_wrapper_[b] # "none"
    /\ k_type[a] = k_type[b]
    /\ lock_wrapper_' = [lock_wrapper_ EXCEPT ![a] = lock_wrapper_[b], ![b] = lock_wrapper_[a]]
    /\ UNCHANGED <<lockvars, a_, b_, tmp, task, wcount, k_type, mutex_2, copying, xcalls>>

\* The threads acquire handles with the untimed calls of the wrappers and do to
\* them what a handle allows.
NextHandles ==
    \E t \in Threads :
        \/ \E k \in lock_types : Ready(t) /\ lock_(t, k)
        \/ \E k \in lock_types, o \in {"try_lock", "try_lock_shared"} :
              Ready(t) /\ try_lock_(t, k, o, FALSE)
        \/ locked_ptr_template(t)
        \/ \E k \in lock_types, o \in ExclusiveOps \cup SharedOps : lock_obj_2(t, k, o)
        \/ \E d \in Ptrs, s \in Handles : move_constructor(t, d, s)
        \/ \E d \in Ptrs, s \in Handles : widening_constructor(t, d, s)
        \/ \E d \in Ptrs, s \in Handles : copy_constructor(t, d, s)
        \/ copy_constructed(t)
        \/ \E h \in Handles : destroy(t, h)
        \/ \E h \in Ptrs : reset(t, h)
        \/ \E h \in Ptrs : assign_nullptr(t, h)
        \/ \E d \in Ptrs, s \in Handles : move_assign(t, d, s)
        \/ \E a, b \in Ptrs : swap(t, a, b)
        \/ ExclusiveStep(t)
        \/ SharedStep(t)
        \/ wait(t)
        \/ SpuriousWake(t)

\* No timed call is made, so that the platforms do not differ.
InitHandles == Init /\ platform = "linux"

SpecHandles == InitHandles /\ [][NextHandles]_vars

\* The handles of thread t that exist, hold pointer p and have a lock_type in K.
HandlesOf(t, p, K) ==
    {h \in Handles : /\ ThreadOf(h) = t
                     /\ copying[t] # h
                     /\ lock_wrapper_[h] = p
                     /\ k_type[h] \in K}

UniqueTypes == {"unique_mutable", "unique_const"}

\* The handles of all threads that exist, hold pointer p and have a lock_type in K.
NonNull(p, K) == UNION {HandlesOf(t, p, K) : t \in Threads}

\* C21. Handle ownership invariant: whenever a thread is between two handle
\* operations, the number of its non-null shared handles on a wrapper equals
\* the number of shared holds it has on the lock of that wrapper, and the
\* number of its non-null exclusive handles (mutable or const) equals the
\* number of its exclusive holds; when every thread is between operations,
\* holding_num_ of each wrapper's lock is the sentinel bit for the one exclusive
\* handle plus the number of shared handles.  No hold is leaked, none is
\* released twice.
HandleOwnership ==
    /\ \A t \in Threads :
          Ready(t) => /\ sheld[t] = Cardinality(HandlesOf(t, "this", {"shared_const"}))
                      /\ xheld[t] = Cardinality(HandlesOf(t, "this", UniqueTypes))
    /\ (\A t \in Threads : Ready(t))
          => holding_num_ = [hi |-> Cardinality(NonNull("this", UniqueTypes)),
                             lo |-> Cardinality(NonNull("this", {"shared_const"}))]
    /\ mutex_2.holding_num_ = [hi |-> Cardinality(NonNull("obj_2", UniqueTypes)),
                               lo |-> Cardinality(NonNull("obj_2", {"shared_const"}))]
    /\ mutex_2.writing_num_ = U32(Cardinality(NonNull("obj_2", UniqueTypes)))

\* Every thread is between operations; the two local variables are shared
\* handles on the first wrapper, the return value of thread 1 is an exclusive
\* const handle on the second wrapper, and another thread has a null handle.
HandleOwnershipWitness ==
    /\ \A t \in Threads : Ready(t)
    /\ \A h \in Ptrs : k_type[h] = "shared_const" /\ lock_wrapper_[h] = "this"
    /\ k_type[1] = "unique_const" /\ lock_wrapper_[1] = "obj_2"
    /\ \E t \in Threads \ {1} : lock_wrapper_[t] = "nullptr"

\* C22. At most one exclusive holder per wrapper: at most one non-null handle
\* of lock_type unique_mutable or unique_const refers to a wrapper, and while
\* there is one, no non-null shared_const handle refers to that wrapper.
OneExclusiveHandle ==
    \A p \in {"this", "obj_2"} :
        /\ Cardinality(NonNull(p, UniqueTypes)) <= 1
        /\ NonNull(p, UniqueTypes) # {} => NonNull(p, {"shared_const"}) = {}

\* The local variables are exclusive handles, one on each wrapper, and the
\* try_lock_shared of another thread has returned a null handle.
OneExclusiveHandleWitness ==
    /\ \E a, b \in Ptrs :
          /\ k_type[a] = "unique_const" /\ lock_wrapper_[a] = "this"
          /\ k_type[b] = "unique_mutable" /\ lock_wrapper_[b] = "obj_2"
    /\ \E t \in Threads \ {1} :
          k_type[t] = "shared_const" /\ lock_wrapper_[t] = "nullptr"

\* Handle h of thread t is destroyed, reset or assigned nullptr.
Drops(t, h) == destroy(t, h) \/ reset(t, h) \/ assign_nullptr(t, h)

\* C23. Handle drop equals unlock: destroying, resetting or assigning nullptr
\* to a non-null handle changes the state of the lock of its wrapper exactly as
\* one call of unlock (unique_mutable, unique_const) or of unlock_shared
\* (shared_const) by that thread, and leaves no non-null handle behind; doing
\* so to a null handle calls nothing and changes no lock.  Hence a try_lock on
\* a wrapper that no non-null handle refers to, made while no other thread is
\* inside a call, succeeds.
DropEqualsUnlock ==
    [][/\ \A h \in Handles :
             LET t == ThreadOf(h) IN
             Drops(t, h)
             => /\ lock_wrapper_'[h] \in {"nullptr", "none"}
                /\ lock_wrapper_[h] = "this"
                   => /\ IF k_type[h] = "shared_const" THEN unlock_shared(t, t) ELSE unlock(t, t)
                      /\ UNCHANGED mutex_2
                /\ lock_wrapper_[h] = "obj_2"
                   => /\ mutex_2' = IF k_type[h] = "shared_const"
                                    THEN unlock_shared_2(mutex_2) ELSE unlock_2(mutex_2)
                      /\ UNCHANGED lockvars
                /\ lock_wrapper_[h] = "nullptr" => UNCHANGED <<lockvars, mutex_2>>
       /\ \A t \in Threads :
             /\ try_set_writing_state_to_holding_num_(t)
             /\ op[t] = "try_lock"
             /\ NonNull("this", lock_types) = {}
             /\ \A u \in Threads \ {t} : Ready(u)
             => res'[t] = "true"
       /\ \A t \in Threads, k \in UniqueTypes :
             lock_obj_2(t, k, "try_lock") /\ NonNull("obj_2", lock_types) = {}
             => lock_wrapper_'[t] = "obj_2"]_vars

\* Thread 1 is inside the unlock() of a drop that has just taken the sentinel
\* out of holding_num_: its only handle is a null handle of a unique type.
DropEqualsUnlockWitness ==
    /\ op[1] = "unlock" /\ pc[1] = "dec_w"
    /\ holding_num_ = Zero /\ writing_num_ = One
    /\ \E h \in Ptrs :
          /\ k_type[h] \in UniqueTypes /\ lock_wrapper_[h] = "nullptr"
          /\ \A g \in Handles \ {h} : ThreadOf(g) = 1 => k_type[g] = "none"

\* C24. Move construction transfers the hold without touching the lock: the
\* new handle has the lock_type and the pointer of the source, the source is
\* null, no variable of either lock changes in the step, and as long as a
\* non-null handle refers to the wrapper its lock is held: holding_num_ is not
\* 0 and the CAS of a try_lock on the wrapper fails, which makes it return false.
MoveConstructionTransfers ==
    /\ [][\A d \in Ptrs, s \in Handles :
             LET t == ThreadOf(d) IN
             move_constructor(t, d, s)
             => /\ k_type'[d] = k_type[s]
                /\ lock_wrapper_'[d] = lock_wrapper_[s]
                /\ lock_wrapper_'[s] = "nullptr"
                /\ UNCHANGED <<lockvars, mutex_2>>]_vars
    /\ [](NonNull("this", lock_types) # {} => ~cas_succeeds(holding_num_))
    /\ [](NonNull("obj_2", lock_types) # {} => ~cas_succeeds(mutex_2.holding_num_))
    /\ [][\A t \in Threads :
             /\ try_set_writing_state_to_holding_num_(t)
             /\ op[t] = "try_lock"
             /\ NonNull("this", lock_types) # {}
             => pc'[t] = FailPc("try_lock") /\ res'[t] # "true" /\ UNCHANGED holding_num_]_vars

\* A local variable of thread 1 is a non-null unique_mutable handle, which only
\* a move construction makes; the handle it came from is null, and the
\* try_lock of another thread has returned false.
MoveConstructionWitness ==
    /\ \E d \in Ptrs :
          /\ k_type[d] = "unique_mutable" /\ lock_wrapper_[d] = "this"
          /\ \A g \in Ptrs \ {d} : k_type[g] = "none"
    /\ k_type[1] = "unique_mutable" /\ lock_wrapper_[1] = "nullptr"
    /\ \E u \in Threads \ {1} :
          /\ op[u] = "try_lock" /\ pc[u] = "idle" /\ res[u] = "false"
          /\ lock_wrapper_[u] = "nullptr"

\* C25. Move assignment of handle s into handle d releases exactly the hold d
\* had (one unlock or unlock_shared, by the lock_type of d, on the wrapper d
\* referred to; nothing if d was null), gives d the pointer of s and leaves s
\* null, also when s is unique_mutable and d is unique_const.  Afterwards the
\* lock of the wrapper of s is still held, and the lock of the wrapper d
\* referred to is free once no non-null handle refers to it.
MoveAssignment ==
    [][\A d, s \in Handles :
          LET t == ThreadOf(d) IN
          (d # s /\ move_assign(t, d, s))
          => /\ lock_wrapper_'[d] = lock_wrapper_[s]
             /\ lock_wrapper_'[s] = "nullptr"
             /\ UNCHANGED k_type
             /\ lock_wrapper_[d] = "this"
                => /\ IF k_type[d] = "shared_const" THEN unlock_shared(t, t) ELSE unlock(t, t)
                   /\ UNCHANGED mutex_2
             /\ lock_wrapper_[d] = "obj_2"
                => /\ mutex_2' = IF k_type[d] = "shared_const"
                                 THEN unlock_shared_2(mutex_2) ELSE unlock_2(mutex_2)
                   /\ UNCHANGED lockvars
             /\ lock_wrapper_[d] = "nullptr" => UNCHANGED <<lockvars, mutex_2>>
             /\ lock_wrapper_[s] = "this" => ~cas_succeeds(holding_num_')
             /\ lock_wrapper_[s] = "obj_2" => ~cas_succeeds(mutex_2'.holding_num_)
             /\ (lock_wrapper_[d] = "this" /\ NonNull("this", lock_types)' = {}
                   /\ \A u \in Threads \ {t} : Ready(u))
                => cas_succeeds(holding_num_')
             /\ (lock_wrapper_[d] = "obj_2" /\ NonNull("obj_2", lock_types)' = {})
                => cas_succeeds(mutex_2'.holding_num_)]_vars

\* Thread 1 is inside the unlock() that released the first wrapper; its
\* unique_const local variable refers to the second wrapper, whose lock is
\* still held, and its unique_mutable local variable is null.
MoveAssignmentWitness ==
    /\ op[1] = "unlock" /\ pc[1] = "dec_w" /\ holding_num_ = Zero
    /\ k_type[1] = "none"
    /\ mutex_2.holding_num_ = k_writing_state
    /\ \E d, s \in Ptrs :
          /\ k_type[d] = "unique_const" /\ lock_wrapper_[d] = "obj_2"
          /\ k_type[s] = "unique_mutable" /\ lock_wrapper_[s] = "nullptr"

\* C26. Widening is not a relock: the conversion of a unique_mutable handle
\* into a unique_const handle calls neither unlock nor lock: no variable of
\* either lock changes in the step, so writing_num_ and holding_num_ keep their
\* values and the thread keeps its exclusive hold; the source is null, the new
\* handle has its pointer, and if that is not null the CAS of a try_lock would
\* still fail after the step.
WideningKeepsHold ==
    [][\A d \in Ptrs, s \in Handles :
          LET t == ThreadOf(d) IN
          widening_constructor(t, d, s)
          => /\ k_type[s] = "unique_mutable" /\ k_type'[d] = "unique_const"
             /\ lock_wrapper_'[d] = lock_wrapper_[s]
             /\ lock_wrapper_'[s] = "nullptr"
             /\ UNCHANGED <<lockvars, mutex_2>>
             /\ lock_wrapper_[s] = "this"
                => xheld'[t] = 1 /\ holding_num_'.hi = 1 /\ ~cas_succeeds(holding_num_')
             /\ lock_wrapper_[s] = "obj_2"
                => ~cas_succeeds(mutex_2'.holding_num_)]_vars

\* The unique_mutable handle that lock() returned to thread 1 is null and its
\* only local variable is a non-null unique_const handle, while another thread
\* waits in lock() for the hold that never ceased to exist.
WideningKeepsHoldWitness ==
    /\ op[1] = "lock" /\ pc[1] = "idle"
    /\ k_type[1] = "unique_mutable" /\ lock_wrapper_[1] = "nullptr"
    /\ \E d \in Ptrs :
          /\ k_type[d] = "unique_const" /\ lock_wrapper_[d] = "this"
          /\ \A g \in Ptrs \ {d} : k_type[g] = "none"
    /\ \E u \in Threads \ {1} : op[u] = "lock" /\ pc[u] = "parked"

\* The non-null shared_const handles on the wrapper with pointer p.
SharedHandles(p) == NonNull(p, {"shared_const"})

\* C27. Copying a non-null shared_const handle acquires exactly one more
\* shared hold on the same lock: the copy constructor is one lock_shared() on
\* the wrapper of the source, and when the copy exists the thread has one hold
\* and holding_num_ one unit more than before.  Dropping one of several
\* non-null shared handles leaves the lock shared-held, so that the CAS of a
\* try_lock fails; dropping the last one, with no other thread inside a call,
\* leaves holding_num_ at 0, so that it succeeds.
CopyAddsOneHold ==
    /\ [][\A d \in Ptrs, s \in Handles :
             LET t == ThreadOf(d) IN
             (lock_wrapper_[s] \in {"this", "obj_2"} /\ copy_constructor(t, d, s))
             => /\ k_type'[d] = "shared_const" /\ lock_wrapper_'[d] = lock_wrapper_[s]
                /\ lock_wrapper_'[s] = lock_wrapper_[s]
                /\ lock_wrapper_[s] = "this"
                   => /\ op'[t] = "lock_shared" /\ pc'[t] # "idle"
                      /\ UNCHANGED <<writing_num_, holding_num_, sheld, xheld, mutex_2>>
                /\ lock_wrapper_[s] = "obj_2"
                   => /\ mutex_2'.holding_num_.lo = mutex_2.holding_num_.lo + 1
                      /\ mutex_2'.holding_num_.hi = 0
                      /\ mutex_2'.writing_num_ = mutex_2.writing_num_
                      /\ UNCHANGED lockvars]_vars
    /\ [](\A t \in Threads :
             copying[t] # 0
             => /\ op[t] = "lock_shared"
                /\ sheld[t] = Cardinality(HandlesOf(t, "this", {"shared_const"}))
                              + (IF pc[t] = "idle" THEN 1 ELSE 0))
    /\ [][\A t \in Threads :
             copy_constructed(t)
             => /\ Cardinality(SharedHandles("this"))' = Cardinality(SharedHandles("this")) + 1
                /\ sheld[t] = Cardinality(HandlesOf(t, "this", {"shared_const"}))'
                /\ ((\A u \in Threads \ {t} : Ready(u))
                    => holding_num_ = [hi |-> 0, lo |-> Cardinality(SharedHandles("this"))'])]_vars
    /\ [][\A h \in Handles, p \in {"this", "obj_2"} :
             LET t == ThreadOf(h) IN
             (k_type[h] = "shared_const" /\ lock_wrapper_[h] = p /\ Drops(t, h))
             => LET H == IF p = "this" THEN holding_num_' ELSE mutex_2'.holding_num_
                IN  /\ SharedHandles(p)' # {} => (H.lo >= 1 /\ ~cas_succeeds(H))
                    /\ (SharedHandles(p)' = {} /\ \A u \in Threads \ {t} : Ready(u))
                       => cas_succeeds(H)]_vars

\* The lock_shared() of a copy constructor of thread 1 has returned: thread 1
\* has two shared holds, the one of the source and the one of the copy.
CopyAddsOneHoldWitness ==
    /\ copying[1] \in Ptrs /\ pc[1] = "idle" /\ res[1] = "true"
    /\ sheld[1] = 2 /\ holding_num_ = U32(2)
    /\ lock_wrapper_[copying[1]] = "this"

\* Thread t is in the lock_shared() of a copy constructor without its hold,
\* the shared holds that exist are its own, and writer u is inside lock(),
\* waiting for holding_num_ to become 0.
CopyDeadlock(t, u) ==
    /\ copying[t] # 0 /\ op[t] = "lock_shared" /\ pc[t] # "idle"
    /\ sheld[t] >= 1 /\ SharedHolds = sheld[t] /\ ExclusiveHolds = 0
    /\ u # t /\ op[u] = "lock" /\ pc[u] # "idle"

\* C28. Copying a shared_const handle blocks on writer demand like any
\* lock_shared: the lock_shared() of a copy constructor obtains its hold only in
\* a step in which writing_num_ is 0.  When the copying thread owns the only
\* shared holds and a writer is inside lock(), waiting for them, the state can
\* only be followed by states of the same kind: writing_num_ stays above 0,
\* the copy never obtains its hold and the lock() never returns.
CopyBlocksOnWriterDemand ==
    /\ [][\A t \in Threads :
             (copying[t] # 0 /\ sheld'[t] # sheld[t])
             => writing_num_ = Zero /\ writing_num_' = Zero]_vars
    /\ [][\A t, u \in Threads :
             CopyDeadlock(t, u)
             => /\ CopyDeadlock(t, u)'
                /\ writing_num_' # Zero
                /\ holding_num_'.lo >= 1]_vars

\* Thread 1 is parked in the lock_shared() of its copy constructor and the
\* writer is parked in lock(): nobody is left to wake either.
CopyBlocksWitness ==
    \E u \in Threads \ {1} :
        /\ CopyDeadlock(1, u)
        /\ pc[1] = "parked" /\ pc[u] = "parked"

\* The threads that are exclusive holders: their CAS of holding_num_ from 0
\* to k_writing_state succeeded and unlock has not yet subtracted it.
ExclusiveHolders == {t \in Threads : xheld[t] > 0}

\* C29. Sentinel invariant: holding_num_ >= k_writing_state (its top bit is
\* set) if and only if exactly one thread is an exclusive holder, and
\* holding_num_ < k_writing_state if and only if there is none; the bit is set
\* only by the successful CAS and cleared only by the fetch_sub of unlock.
SentinelInvariant ==
    /\ [](/\ holding_num_.hi = 1 <=> (Cardinality(ExclusiveHolders) = 1 /\ ExclusiveHolds = 1)
          /\ holding_num_.hi = 0 <=> ExclusiveHolders = {})
    /\ [][holding_num_'.hi # holding_num_.hi
          => \/ /\ holding_num_ = Zero /\ holding_num_' = k_writing_state
                /\ \E t \in Threads : pc[t] = "cas" /\ xheld'[t] = xheld[t] + 1
             \/ /\ holding_num_.hi = 1 /\ holding_num_'.lo = holding_num_.lo
                /\ \E t \in Threads : op'[t] = "unlock" /\ pc'[t] = "dec_w" /\ pc[t] = "idle"]_vars

\* An exclusive holder exists while holding_num_ is above k_writing_state: a
\* reader has incremented it and has yet to back out.
SentinelInvariantWitness ==
    /\ ExclusiveHolders # {}
    /\ holding_num_ = [hi |-> 1, lo |-> 1]
    /\ \E t \in Threads : pc[t] = "load2"

\* Thread t has executed increase_writing_num_() in an acquire that is still
\* running, or is in a decrease_writing_num_() that is about to take 1 off.
InExclusivePath(t) ==
    \/ op[t] \in ExclusiveOps /\ pc[t] \in {"cas"} \cup WaitPcs
    \/ pc[t] = "dec_w"

\* C30. Writer-demand accounting: writing_num_ equals the number of increments
\* made by lock, try_lock and the timed tries whose decrement (in unlock, or
\* where a try gives up) has not been executed yet: one per exclusive hold and
\* one per thread that is inside such a call between the two.  Hence
\* writing_num_ is 0 whenever no hold exists and no thread is inside such a
\* call; every acquire starts with the increment, which leaves holding_num_
\* alone, and a CAS on holding_num_ is only attempted with writing_num_ > 0.
WriterDemandAccounting ==
    /\ [](writing_num_ = U32(ExclusiveHolds + Cardinality({t \in Threads : InExclusivePath(t)})))
    /\ []((ExclusiveHolds = 0 /\ \A t \in Threads : ~InExclusivePath(t)) => writing_num_ = Zero)
    /\ [](\A t \in Threads : pc[t] = "cas" => writing_num_.lo >= 1)
    /\ [][\A t \in Threads :
             (pc[t] = "idle" /\ pc'[t] # "idle" /\ op'[t] \in ExclusiveOps)
             => /\ writing_num_' = U32(writing_num_.lo + 1)
                /\ holding_num_' = holding_num_
                /\ pc'[t] = "cas"]_vars
    /\ [][writing_num_' # writing_num_
          => \E t \in Threads :
                \/ pc[t] = "idle" /\ pc'[t] = "cas" /\ writing_num_' = U32(writing_num_.lo + 1)
                \/ pc[t] = "dec_w" /\ pc'[t] # "dec_w" /\ writing_num_' = U32(writing_num_.lo - 1)]_vars

\* A thread is inside unlock(), after the fetch_sub on holding_num_ and before
\* decrease_writing_num_(), while another is parked in lock(): writing_num_ is 2
\* and holding_num_ is 0.
WriterDemandAccountingWitness ==
    \E t, u \in Threads :
        /\ op[t] = "unlock" /\ pc[t] = "dec_w"
        /\ op[u] = "lock" /\ pc[u] = "parked"
        /\ writing_num_ = U32(2) /\ holding_num_ = Zero

\* C31. Holding-count accounting: holding_num_ always equals k_writing_state
\* times (1 if an exclusive holder has been granted, else 0) plus the number of
\* readers between their fetch_add(1) and their matching fetch_sub(1).  No
\* step wraps it: fetch_add(1) never meets 2^31 - 1 readers, fetch_sub(1) never
\* meets a reader count of 0, fetch_sub(k_writing_state) always meets the
\* sentinel, also when readers that incremented while the writer held back out
\* after its unlock.
HoldingCountAccounting ==
    /\ [](/\ holding_num_.hi = (IF ExclusiveHolders # {} THEN 1 ELSE 0)
          /\ holding_num_.lo = ReaderCount
          /\ holding_num_.lo < MaxLo)
    /\ [][holding_num_' # holding_num_
          => \/ holding_num_ = Zero /\ holding_num_' = k_writing_state
             \/ /\ holding_num_.hi = 1
                /\ holding_num_' = [hi |-> 0, lo |-> holding_num_.lo]
             \/ /\ holding_num_.lo < MaxLo
                /\ holding_num_' = [hi |-> holding_num_.hi, lo |-> holding_num_.lo + 1]
             \/ /\ holding_num_.lo >= 1
                /\ holding_num_' = [hi |-> holding_num_.hi, lo |-> holding_num_.lo - 1]]_vars

\* unlock() has subtracted k_writing_state while a reader that had incremented
\* holding_num_ under the writer has yet to back out: holding_num_ is 1, with no
\* hold of either kind.
HoldingCountAccountingWitness ==
    /\ holding_num_ = One
    /\ ExclusiveHolds = 0 /\ SharedHolds = 0
    /\ \E t, u \in Threads :
          /\ op[t] = "unlock" /\ pc[t] = "dec_w"
          /\ pc[u] = "us_sub"

\* C32. Quiescent exclusive state: whenever a thread holds exclusive ownership
\* and no acquire or release is in progress on any thread, holding_num_ is
\* exactly k_writing_state and writing_num_ >= 1.
QuiescentExclusiveState ==
    (ExclusiveHolders # {} /\ Quiescent)
        => /\ holding_num_ = k_writing_state
           /\ writing_num_.hi = 0 /\ writing_num_.lo >= 1

\* A thread holds exclusively after a try_lock_shared of another thread ran
\* against it, incremented nothing that remains, and returned false.
QuiescentExclusiveStateWitness ==
    /\ Quiescent
    /\ \E t, u \in Threads :
          /\ t # u
          /\ xheld[t] = 1
          /\ op[u] = "try_lock_shared" /\ res[u] = "false"

\* The readers that have incremented holding_num_ and have neither seen their
\* second load of writing_num_ nor backed out.
UnconfirmedReaders == {u \in Threads : pc[u] \in {"load2", "us_sub"}}

\* C33 as stated. Immediately after unlock's fetch_sub(k_writing_state),
\* holding_num_ is 0, whatever shared acquires run concurrently.
UnlockLeavesZeroAsStated ==
    [][\A t, o \in Threads : unlock(t, o) => holding_num_' = Zero]_vars

\* C33, amended. unlock's fetch_sub(k_writing_state) meets the sentinel plus
\* the increments of the readers that entered try_lock_shared_internal_ before
\* the writer's demand was visible and have not yet backed out; it clears the
\* sentinel and leaves exactly those increments, so holding_num_ is below
\* k_writing_state afterwards, is 0 when no such reader exists, and counts no
\* shared holder.
UnlockLeavesUnconfirmedReaders ==
    [][\A t, o \in Threads :
          unlock(t, o)
          => /\ holding_num_ = [hi |-> 1, lo |-> Cardinality(UnconfirmedReaders)]
             /\ holding_num_' = [hi |-> 0, lo |-> Cardinality(UnconfirmedReaders)]
             /\ SharedHolds = 0 /\ SharedHolds' = 0
             /\ UnconfirmedReaders = {} => holding_num_' = Zero]_vars

\* unlock() has just subtracted k_writing_state and holding_num_ is 1: a
\* lock_shared that incremented it under the writer is before its second load.
UnlockLeavesUnconfirmedReadersWitness ==
    \E t, u \in Threads :
        /\ op[t] = "unlock" /\ pc[t] = "dec_w"
        /\ op[u] = "lock_shared" /\ pc[u] = "load2"
        /\ holding_num_ = One
        /\ writing_num_ # Zero

\* The threads whose wait ends in the step, other than the stepping thread t.
WokenIn(t) == {u \in Threads \ {t} : pc[u] \in {"parked", "tparked"} /\ pc'[u] # pc[u]}

\* C34. Exclusive release wake policy: after unlock has subtracted
\* k_writing_state from holding_num_ it decrements writing_num_ and then issues
\* exactly one notification before it returns: notify_all on writing_num_ if
\* and only if its decrement brought writing_num_ to 0 (every reader parked on
\* writing_num_ is woken, no writer is), otherwise notify_one on holding_num_
\* (one parked writer is woken if there is one, no reader is).  No other step
\* of unlock wakes anybody.
ExclusiveReleaseWakePolicy ==
    [][\A t \in Threads :
          /\ (\E o \in Threads : unlock(t, o))
                => pc'[t] = "dec_w" /\ WokenIn(t) = {} /\ writing_num_' = writing_num_
          /\ (op[t] = "unlock" /\ pc[t] = "dec_w" /\ pc'[t] # pc[t])
                => /\ writing_num_' = fetch_sub_1(writing_num_)
                   /\ holding_num_' = holding_num_
                   /\ pc'[t] = (IF writing_num_' = Zero THEN "notify_w" ELSE "notify_h")
                   /\ WokenIn(t) = {}
          /\ (op[t] = "unlock" /\ pc[t] = "notify_w" /\ pc'[t] # pc[t])
                => /\ pc'[t] = "idle" /\ res'[t] = "void"
                   /\ WokenIn(t) = ParkedOn(FALSE)
                   /\ \A u \in WokenIn(t) : pc'[u] = "load1"
                   /\ UNCHANGED <<writing_num_, holding_num_>>
          /\ (op[t] = "unlock" /\ pc[t] = "notify_h" /\ pc'[t] # pc[t])
                => /\ pc'[t] = "idle" /\ res'[t] = "void"
                   /\ WokenIn(t) \subseteq ParkedOn(TRUE)
                   /\ Cardinality(WokenIn(t)) = (IF ParkedOn(TRUE) = {} THEN 0 ELSE 1)
                   /\ \A u \in WokenIn(t) : pc'[u] = "cas"
                   /\ UNCHANGED <<writing_num_, holding_num_>>]_vars

\* An unlock whose decrement left writer demand (writing_num_ went from 2 to 1)
\* is about to notify_one on holding_num_, where the other writer is parked.
ExclusiveReleaseWakePolicyWitness ==
    \E t \in Threads :
        /\ op[t] = "unlock" /\ pc[t] = "notify_h"
        /\ ParkedOn(TRUE) # {}
        /\ writing_num_ = One /\ holding_num_ = Zero

\* Thread t is inside unlock_shared(), called directly or as the back-out of a
\* shared acquire, after its fetch_sub.
InUnlockShared(t) == pc[t] \in {"us_load", "us_notify"}

\* C35. Shared release wake policy: unlock_shared, called directly or as a
\* reader's back-out, subtracts 1 from holding_num_, loads writing_num_ only
\* if the fetch_sub returned 1 (holding_num_ became 0), and issues notify_one
\* on holding_num_ if and only if that load is greater than 0.  It wakes no
\* thread parked on writing_num_, and no thread at all when its fetch_sub left
\* holding_num_ nonzero.
SharedReleaseWakePolicy ==
    [][\A t \in Threads :
          /\ ((\E o \in Threads : unlock_shared(t, o)) \/ (pc[t] = "us_sub" /\ pc'[t] # pc[t]))
                => /\ holding_num_.lo >= 1
                   /\ holding_num_' = [holding_num_ EXCEPT !.lo = @ - 1]
                   /\ writing_num_' = writing_num_
                   /\ WokenIn(t) = {}
                   /\ InUnlockShared(t)' <=> (holding_num_ = One /\ holding_num_' = Zero)
                   /\ pc'[t] # "us_notify"
          /\ (pc[t] = "us_load" /\ pc'[t] # pc[t])
                => /\ UNCHANGED <<writing_num_, holding_num_>>
                   /\ WokenIn(t) = {}
                   /\ pc'[t] = "us_notify" <=> writing_num_ # Zero
          /\ (pc[t] = "us_notify" /\ pc'[t] # pc[t])
                => /\ UNCHANGED <<writing_num_, holding_num_>>
                   /\ WokenIn(t) \subseteq ParkedOn(TRUE)
                   /\ Cardinality(WokenIn(t)) = (IF ParkedOn(TRUE) = {} THEN 0 ELSE 1)
                   /\ ~InUnlockShared(t)'
          /\ (~InUnlockShared(t) /\ InUnlockShared(t)') => pc'[t] = "us_load"
          /\ (op[t] \in SharedOps \cup {"unlock_shared"} /\ pc[t] \notin {"us_notify"} /\ pc'[t] # pc[t])
                => WokenIn(t) = {}]_vars

\* A reader that backs out has brought holding_num_ to 0, read writing_num_ > 0
\* and is about to notify_one on holding_num_, where the writer is parked.
SharedReleaseWakePolicyWitness ==
    \E t \in Threads :
        /\ op[t] \in {"lock_shared", "try_lock_shared"} /\ pc[t] = "us_notify"
        /\ ParkedOn(TRUE) # {}
        /\ holding_num_ = Zero

\* Thread t is in the back-out of try_lock_shared_internal_: its second load
\* read writing_num_ > 0 and its unlock_shared() has not returned.
BackingOut(t) == op[t] \in SharedOps /\ pc[t] \in {"us_sub", "us_load", "us_notify"}

\* C36. Reader double-check: a shared acquire succeeds only in its second load
\* of writing_num_, reading 0 after its own increment of holding_num_ and
\* having read 0 before it.  A reader whose second load is > 0 gains no hold:
\* it runs the shared-release path (fetch_sub of its increment, then the load
\* and notify_one of unlock_shared) and then returns false (try_lock_shared) or
\* waits on writing_num_ with the value it read and starts again at the first
\* load (lock_shared; the timed calls through their timed wait).  No shared
\* hold ever exists together with an exclusive hold.
ReaderDoubleCheck ==
    /\ [](~(SharedHolds > 0 /\ ExclusiveHolds > 0))
    /\ [][\A t \in Threads :
            /\ sheld'[t] > sheld[t]
                  => /\ pc[t] = "load2" /\ wrote_h[t]
                     /\ cur[t] = Zero /\ writing_num_ = Zero
                     /\ holding_num_.lo >= 1 /\ holding_num_' = holding_num_
                     /\ pc'[t] = "idle" /\ res'[t] = "true"
            /\ (pc[t] = "load2" /\ pc'[t] # pc[t] /\ writing_num_ # Zero)
                  => /\ pc'[t] = "us_sub" /\ cur'[t] = writing_num_
                     /\ sheld' = sheld /\ holding_num_' = holding_num_
            /\ (pc[t] = "us_sub" /\ pc'[t] # pc[t])
                  => /\ holding_num_' = [holding_num_ EXCEPT !.lo = @ - 1]
                     /\ sheld' = sheld
            /\ (BackingOut(t) /\ ~BackingOut(t)')
                  => /\ sheld' = sheld
                     /\ cur[t] # Zero
                     /\ pc'[t] = (CASE op[t] = "try_lock_shared" -> "idle"
                                    [] op[t] = "lock_shared" -> "wait"
                                    [] OTHER -> "twait")
                     /\ op[t] = "try_lock_shared" => res'[t] = "false"
            /\ (op[t] = "lock_shared" /\ pc[t] \in {"wait", "parked"} /\ pc'[t] # pc[t])
                  => pc'[t] \in {"parked", "load1"}]_vars

\* A lock_shared that incremented holding_num_, read writing_num_ > 0 and backed
\* out is about to wait on writing_num_; the writer whose demand it met holds.
ReaderDoubleCheckWitness ==
    \E t, u \in Threads :
        /\ op[t] = "lock_shared" /\ pc[t] = "wait" /\ wrote_h[t]
        /\ xheld[u] > 0
        /\ holding_num_ = k_writing_state

\* The parked wait of t ends in the step although no other thread took a step
\* (nobody notified) and, for a timed wait, the deadline has not been reached.
ReturnsUnnotified(t) ==
    /\ pc[t] \in {"parked", "tparked"}
    /\ pc'[t] # pc[t]
    /\ \A u \in Threads \ {t} : pc'[u] = pc[u]
    /\ pc[t] = "tparked" => ~expired[t]

\* C37 as stated. Spurious and interrupted waits are invisible: with waits that
\* may return at any time without a notify and without a timeout, lock()
\* returns only from its own successful CAS of holding_num_ from 0 to
\* k_writing_state, lock_shared() only from a second load that read
\* writing_num_ == 0 after its increment of holding_num_, a timed acquire whose
\* wait returned that way calls its function again instead of failing, and
\* no two holds exclude each other at the same time.
SpuriousReturnsInvisible ==
    /\ [](ExclusiveHolds <= 1 /\ ~(SharedHolds > 0 /\ ExclusiveHolds > 0))
    /\ [][\A t \in Threads :
            /\ (op[t] = "lock" /\ pc[t] # "idle" /\ pc'[t] = "idle")
                  => /\ pc[t] = "cas"
                     /\ holding_num_ = Zero /\ holding_num_' = k_writing_state
                     /\ xheld'[t] = xheld[t] + 1
            /\ (op[t] = "lock_shared" /\ pc[t] # "idle" /\ pc'[t] = "idle")
                  => /\ pc[t] = "load2" /\ wrote_h[t]
                     /\ writing_num_ = Zero
                     /\ sheld'[t] = sheld[t] + 1
            /\ ReturnsUnnotified(t) => pc'[t] = RetryPc(t)]_vars

\* C38. Every parked writer is counted in writing_num_: writing_num_ is at
\* least the number of threads parked on holding_num_ (inside lock or a timed
\* exclusive acquire), and a thread parked on writing_num_ has no increment in
\* holding_num_ from the call it is parked in.  Hence the test of unlock_shared
\* (writing_num_ > 0) and the test of unlock (its decrement brought
\* writing_num_ to 0) never overlook a parked writer: with a writer parked,
\* unlock_shared's load leads to notify_one on holding_num_, and
\* decrease_writing_num_ does not reach 0.
ParkedWritersCounted ==
    /\ [](/\ writing_num_.hi = 0
          /\ writing_num_.lo >= Cardinality(ParkedOn(TRUE))
          /\ holding_num_.lo = SharedHolds + Cardinality(UnconfirmedReaders \ ParkedOn(FALSE))
          /\ \A t \in ParkedOn(FALSE) : cur[t] # Zero)
    /\ [][\A t \in Threads :
            ParkedOn(TRUE) # {}
            => /\ (pc[t] = "us_load" /\ pc'[t] # pc[t])
                     => writing_num_ # Zero /\ pc'[t] = "us_notify"
               /\ (pc[t] = "dec_w" /\ pc'[t] # pc[t])
                     => /\ writing_num_' # Zero
                        /\ pc'[t] # "notify_w"
                        /\ op[t] = "unlock" => pc'[t] = "notify_h"]_vars

\* The last shared holder has released (holding_num_ went from 1 to 0) and is
\* about to load writing_num_, which counts the writer parked on holding_num_.
ParkedWritersCountedWitness ==
    \E t \in Threads :
        /\ op[t] = "unlock_shared" /\ pc[t] = "us_load"
        /\ ParkedOn(TRUE) # {}
        /\ writing_num_ = One

(***************************************************************************)
(* A race of two try operations on a free lock: each thread calls try_lock *)
(* or try_lock_shared once, and nothing else runs.                         *)
(***************************************************************************)
\* Thread t has made its call and the call has returned.
Returned(t) == op[t] # "none" /\ pc[t] = "idle"

\* Thread t has not made its call, and at most one other thread has made one.
MayRace(t) == op[t] = "none" /\ Cardinality({u \in Threads : op[u] # "none"}) < 2

race_try_lock(t) ==
    /\ MayRace(t)
    /\ StartExclusive(t, "try_lock", FALSE)
    /\ UNCHANGED <<datavars, xcalls>>

race_try_lock_shared(t) ==
    /\ MayRace(t)
    /\ StartShared(t, "try_lock_shared", FALSE)
    /\ UNCHANGED <<datavars, xcalls>>

NextTryRace ==
    \E t \in Threads :
        \/ race_try_lock(t)
        \/ race_try_lock_shared(t)
        \/ try_set_writing_state_to_holding_num_(t)
        \/ decrease_writing_num_(t)
        \/ notify_all_readers(t)
        \/ increase_holding_num_(t)
        \/ recheck_writing_num_(t)
        \/ back_out(t)
        \/ unlock_shared_load_(t)
        \/ unlock_shared_notify_one(t)

SpecTryRace == Init /\ [][NextTryRace]_vars

\* C39 as stated. No mutual abort of try operations: when one try_lock and one
\* try_lock_shared race on a free lock with no other thread active, they do not
\* both return false.
NoMutualAbortAsStated ==
    \A t, u \in Threads :
        (op[t] = "try_lock" /\ op[u] = "try_lock_shared" /\ Returned(t) /\ Returned(u))
        => ~(res[t] = "false" /\ res[u] = "false")

\* C39, amended. A try_lock and a try_lock_shared that race on a free lock
\* with no other thread active both return false only when the reader's
\* increment of holding_num_ met the writer's CAS: the reader read
\* writing_num_ == 0, incremented holding_num_ and backed out on its second
\* load, and the CAS failed on the reader's increment.  Both counters are then
\* back at 0 with no hold.  A try_lock_shared that fails without having
\* incremented holding_num_ leaves the try_lock to acquire, the two never both
\* acquire, and two tries of the same kind never both fail.
MutualAbortOnlyByBackOut ==
    /\ [](\A t, u \in Threads :
            (t # u /\ Returned(t) /\ Returned(u))
            => /\ (op[t] = "try_lock" /\ op[u] = "try_lock_shared")
                     => /\ (res[t] = "false" /\ res[u] = "false")
                              => /\ wrote_h[u]
                                 /\ holding_num_ = Zero /\ writing_num_ = Zero
                                 /\ ExclusiveHolds = 0 /\ SharedHolds = 0
                        /\ (res[u] = "false" /\ ~wrote_h[u]) => res[t] = "true"
                        /\ ~(res[t] = "true" /\ res[u] = "true")
               /\ op[t] = op[u] => (res[t] = "true" \/ res[u] = "true"))
    /\ [][\A t \in Threads :
            (pc[t] = "cas" /\ pc'[t] = "dec_w")
            => /\ holding_num_ # Zero
               /\ \E u \in Threads \ {t} :
                     \/ op[u] = "try_lock_shared" /\ (pc[u] \in {"load2", "us_sub"} \/ sheld[u] = 1)
                     \/ op[u] = "try_lock" /\ xheld[u] = 1]_vars

\* Both calls have returned false: the try_lock_shared had incremented
\* holding_num_ and took the increment back, and the lock is free.
MutualAbortWitness ==
    \E t, u \in Threads :
        /\ op[t] = "try_lock" /\ Returned(t) /\ res[t] = "false"
        /\ op[u] = "try_lock_shared" /\ Returned(u) /\ res[u] = "false"
        /\ wrote_h[u]
        /\ holding_num_ = Zero /\ writing_num_ = Zero

\* C40. Copying a null shared_const handle yields a null shared_const handle
\* and calls no lock_shared: neither mutex changes, no call is started, and
\* the source stays null.  Destroying a null handle, the copy included, calls
\* no unlock_shared: neither mutex changes.
NullCopyLocksNothing ==
    [][/\ \A d \in Ptrs, s \in Handles :
             (lock_wrapper_[s] = "nullptr" /\ k_type[s] = "shared_const" /\ k_type[d] = "none"
                /\ copy_constructor(ThreadOf(d), d, s))
             => /\ lock_wrapper_'[d] = "nullptr" /\ k_type'[d] = "shared_const"
                /\ lock_wrapper_'[s] = "nullptr"
                /\ UNCHANGED <<lockvars, mutex_2, copying>>
       /\ \A h \in Handles :
             (lock_wrapper_[h] = "nullptr" /\ lock_wrapper_'[h] = "none"
                /\ destroy(ThreadOf(h), h))
             => UNCHANGED <<lockvars, mutex_2>>]_vars

\* Two null shared_const handles of one thread, one of them a handle that
\* only construction from another handle produces, while the thread holds the
\* mutex in shared mode through a third handle.
NullCopyWitness ==
    \E d \in Ptrs, s, h \in Handles :
        /\ d # s /\ ThreadOf(s) = ThreadOf(d) /\ ThreadOf(h) = ThreadOf(d)
        /\ k_type[d] = "shared_const" /\ lock_wrapper_[d] = "nullptr"
        /\ k_type[s] = "shared_const" /\ lock_wrapper_[s] = "nullptr"
        /\ k_type[h] = "shared_const" /\ lock_wrapper_[h] = "this"
        /\ sheld[ThreadOf(d)] = 1

====
